---- MODULE Spec2Model ----
(***************************************************************************)
(* Model of the webtoon-manager state layer: the AsyncStorage-backed       *)
(* progress and favorites services (services/storage.ts), the callers that *)
(* start their operations, and the episode extractor                       *)
(* (services/episodeParser.ts).                                            *)
(*                                                                         *)
(* Every storage-service function is async: it suspends on each            *)
(* AsyncStorage call.  The calls in flight form a bag of call records; a   *)
(* call advances one storage completion at a time, and the code between    *)
(* two awaits runs atomically on the JS thread, as part of that action.    *)
(***************************************************************************)
EXTENDS Integers, Sequences, FiniteSets, Bags, TLC

\* ------------------------------------------------------------------ bounds
MaxCalls == 2        \* storage-service calls that may be in flight per key
MaxEpisode == 2      \* episode numbers passed to updateProgress: 1..MaxEpisode
MaxClock == 1        \* readings of new Date(): 0..MaxClock
MaxCached == 2       \* records in the cached favorites list when a toggle starts

Episodes == 1..MaxEpisode

\* ids of the catalog entries the model tracks (DUMMY_WEBTOONS[0..1].id)
Items == {"1", "2"}

VARIABLES
    now,            \* the value new Date() yields
    progressBlob,   \* AsyncStorage entry under StorageKeys.PROGRESS
    pcalls,         \* bag of updateProgress / clearProgress calls not yet returned
    favBlob,        \* AsyncStorage entry under StorageKeys.FAVORITES
    fcalls,         \* bag of addFavorite / removeFavorite / toggleFavorite calls
    hist,           \* history of the sequential runs (not program state)
    req,            \* the arguments of a call of a parser function
    res,            \* what that call yielded
    settingsBlob,   \* AsyncStorage entry under StorageKeys.SETTINGS
    scalls,         \* bag of getSettings / updateSettings / clearAllData calls
    hook,           \* state of useProgress: progress, loading
    provider,       \* state of FavoritesProvider: favorites, favoriteIds, loading
    screen          \* state of WebViewScreen: currentUrl, detectedEpisode

\* the variables of the settings store and of the React components
appVars == <<settingsBlob, scalls, hook, provider, screen>>

vars == <<now, progressBlob, pcalls, favBlob, fcalls, hist, req, res, appVars>>

\* ------------------------------------------------------- storage entries
\* An AsyncStorage entry: getItem yields null while nothing was stored
\* (has = FALSE) and the stored text otherwise; json tells whether the text
\* is JSON, val is the value it denotes.
EmptyMap == [k \in {} |-> 0]

AbsentProgress == [has |-> FALSE, json |-> TRUE, val |-> EmptyMap]
AbsentFavorites == [has |-> FALSE, json |-> TRUE, val |-> <<>>]

\* an entry whose text is not JSON: JSON.parse throws a SyntaxError
Unparsable == [has |-> TRUE, json |-> FALSE, val |-> EmptyMap]

\* JSON.stringify(x) handed to setItem
Stringify(x) == [has |-> TRUE, json |-> TRUE, val |-> x]

\* data ? JSON.parse(data) : {}
ParseProgress(data) == IF data.has THEN data.val ELSE EmptyMap

\* data ? JSON.parse(data) : []
ParseFavorites(data) == IF data.has THEN data.val ELSE <<>>

\* allProgress[webtoonId] = rec
Put(m, k, rec) == [x \in DOMAIN m \cup {k} |-> IF x = k THEN rec ELSE m[x]]

\* delete allProgress[webtoonId]
Delete(m, k) == [x \in DOMAIN m \ {k} |-> m[x]]

Has(m, k) == k \in DOMAIN m

\* Math.max(a, b)
Max(a, b) == IF a >= b THEN a ELSE b

\* a call record c of the bag B becomes d
Replace(B, c, d) == (B (-) SetToBag({c})) (+) SetToBag({d})

\* ------------------------------------------------------- progress service
ReadingProgress(id, e, t) == [webtoonId |-> id, lastEpisode |-> e, lastReadAt |-> t]

\* Two Numbers above every integer of up to nine digits: a finite one and
\* Infinity.  Where the digits of the finite one matter (NumberToString) it
\* is 10^21, which a 32-bit integer cannot hold.
Big == 10^9
Infinity == Big + 1

\* a Number as JSON.stringify writes it and the code reads it back:
\* Infinity is written as null, and the uses of a stored lastEpisode
\* (episode > existing.lastEpisode) take null as ToNumber(null), 0
JsonNumber(n) == IF n = Infinity THEN 0 ELSE n

\* JSON.parse(JSON.stringify(allProgress))
ProgressJson(allProgress) ==
    [k \in DOMAIN allProgress |->
        [allProgress[k] EXCEPT !.lastEpisode = JsonNumber(@)]]

\* JavaScript null and undefined as values a call returns
Null == [kind |-> "null", val |-> 0]
Undefined == [kind |-> "undefined", val |-> 0]

\* a call of getAllProgress / getProgress / updateProgress / clearProgress,
\* suspended in the getItem of getAllProgress.  blob is the mapping handed
\* to setItem, ret the value the call returns, threw whether it rejects;
\* rok and wok turn FALSE when its read (getItem, JSON.parse) and its
\* setItem fail.
ProgressCall(op, id, e) ==
    [op |-> op, id |-> id, ep |-> e, pc |-> "read", blob |-> EmptyMap, wrote |-> FALSE,
     ret |-> Undefined, threw |-> FALSE, rok |-> TRUE, wok |-> TRUE]

\* what `await AsyncStorage.getItem(key)` gave: it resolved with the entry
\* or it rejected
Resolved(entry) == [ok |-> TRUE, data |-> entry]
Rejected == [ok |-> FALSE, data |-> AbsentProgress]

\* the try block of getAllProgress: exc when getItem rejects or JSON.parse
\* throws
GetAllProgressTry(read) ==
    IF ~read.ok \/ ~read.data.json THEN [exc |-> TRUE, val |-> EmptyMap]
    ELSE [exc |-> FALSE, val |-> ParseProgress(read.data)]

\* variant: getAllProgress without its catch
GetAllProgress_NoCatch(read) == GetAllProgressTry(read)

\* getAllProgress: the catch returns {}
GetAllProgress(read) ==
    IF GetAllProgressTry(read).exc THEN [exc |-> FALSE, val |-> EmptyMap]
    ELSE GetAllProgressTry(read)

\* variant: the record is written whatever the stored episode is
UpdateAfterRead_NoCompare(c, allProgress, t) ==
    [c EXCEPT !.blob = Put(allProgress, c.id, ReadingProgress(c.id, c.ep, t)),
              !.pc = "write", !.wrote = TRUE]

\* variant: an equal episode also rewrites the record (>= for >)
UpdateAfterRead_Geq(c, allProgress, t) ==
    IF ~Has(allProgress, c.id) \/ c.ep >= allProgress[c.id].lastEpisode
    THEN [c EXCEPT !.blob = Put(allProgress, c.id, ReadingProgress(c.id, c.ep, t)),
                   !.pc = "write", !.wrote = TRUE]
    ELSE [c EXCEPT !.pc = "done"]

\* variant: an existing record keeps its lastReadAt when its episode is raised
UpdateAfterRead_KeepTime(c, allProgress, t) ==
    IF ~Has(allProgress, c.id) \/ c.ep > allProgress[c.id].lastEpisode
    THEN [c EXCEPT !.blob = Put(allProgress, c.id,
                        ReadingProgress(c.id, c.ep,
                            IF Has(allProgress, c.id)
                            THEN allProgress[c.id].lastReadAt ELSE t)),
                   !.pc = "write", !.wrote = TRUE]
    ELSE [c EXCEPT !.pc = "done"]

\* updateProgress after `await getAllProgress()`: compare, build the record,
\* issue setItem (pc = "write") or return (pc = "done").
UpdateAfterRead(c, allProgress, t) ==
    IF ~Has(allProgress, c.id) \/ c.ep > allProgress[c.id].lastEpisode
    THEN [c EXCEPT !.blob = Put(allProgress, c.id, ReadingProgress(c.id, c.ep, t)),
                   !.pc = "write", !.wrote = TRUE]
    ELSE [c EXCEPT !.pc = "done"]

\* clearProgress after `await getAllProgress()`: delete the key, issue setItem.
ClearAfterRead(c, allProgress) ==
    [c EXCEPT !.blob = Delete(allProgress, c.id), !.pc = "write", !.wrote = TRUE]

\* getProgress after `await getAllProgress()`: allProgress[webtoonId] || null
GetAfterRead(c, allProgress) ==
    [c EXCEPT !.pc = "done",
              !.ret = IF Has(allProgress, c.id) THEN allProgress[c.id] ELSE Null]

\* the caller of getAllProgress resumes.  r is what getAllProgress gave; a
\* rejection of it lands in the catch of getProgress (null), updateProgress
\* and clearProgress (nothing).
ProgressAfterRead(c, r, t) ==
    IF c.op = "getAll"
    THEN [c EXCEPT !.pc = "done", !.ret = r.val, !.threw = r.exc]
    ELSE IF r.exc
    THEN [c EXCEPT !.pc = "done", !.ret = IF c.op = "get" THEN Null ELSE Undefined]
    ELSE IF c.op = "get" THEN GetAfterRead(c, r.val)
    ELSE IF c.op = "update" THEN UpdateAfterRead(c, r.val, t)
    ELSE ClearAfterRead(c, r.val)

\* the calls of a bag that are suspended on a storage call
InFlight(B) == [c \in {x \in BagToSet(B) : x.pc # "done"} |-> B[c]]

\* new Date() advances
Tick ==
    /\ now < MaxClock
    /\ now' = now + 1
    /\ UNCHANGED <<progressBlob, pcalls, favBlob, fcalls, hist, req, res, appVars>>

\* Storage.updateProgress(webtoonId, episode) up to its first await:
\* getAllProgress has issued AsyncStorage.getItem.
StartUpdate(id, e) ==
    /\ BagCardinality(pcalls) < MaxCalls
    /\ pcalls' = pcalls (+) SetToBag({ProgressCall("update", id, e)})
    /\ UNCHANGED <<now, progressBlob, favBlob, fcalls, req, res, appVars>>

\* Storage.clearProgress(webtoonId) up to its first await
StartClear(id) ==
    /\ BagCardinality(pcalls) < MaxCalls
    /\ pcalls' = pcalls (+) SetToBag({ProgressCall("clear", id, 0)})
    /\ UNCHANGED <<now, progressBlob, favBlob, fcalls, req, res, appVars>>

\* getAllProgress: AsyncStorage.getItem resolves and the text parses; the
\* caller resumes with the mapping.
ProgressGetItemOk(c) ==
    /\ c.pc = "read"
    /\ pcalls' = Replace(pcalls, c,
            ProgressAfterRead(
                [c EXCEPT !.rok = ~GetAllProgressTry(Resolved(progressBlob)).exc],
                GetAllProgress(Resolved(progressBlob)), now))
    /\ UNCHANGED <<now, progressBlob, favBlob, fcalls, hist, req, res, appVars>>

\* getAllProgress: AsyncStorage.getItem rejects; the catch of getAllProgress
\* gives {} and the caller resumes with it.
ProgressGetItemFail(c) ==
    /\ c.pc = "read"
    /\ pcalls' = Replace(pcalls, c,
            ProgressAfterRead([c EXCEPT !.rok = FALSE], GetAllProgress(Rejected), now))
    /\ UNCHANGED <<now, progressBlob, favBlob, fcalls, hist, req, res, appVars>>

\* AsyncStorage.setItem(PROGRESS, JSON.stringify(allProgress)) resolves
ProgressSetItemOk(c) ==
    /\ c.pc = "write"
    /\ progressBlob' = Stringify(ProgressJson(c.blob))
    /\ pcalls' = Replace(pcalls, c, [c EXCEPT !.pc = "done", !.blob = EmptyMap])
    /\ UNCHANGED <<now, favBlob, fcalls, hist, req, res, appVars>>

\* setItem rejects; the catch of updateProgress / clearProgress logs it and
\* the call returns normally
ProgressSetItemFail(c) ==
    /\ c.pc = "write"
    /\ pcalls' = Replace(pcalls, c, [c EXCEPT !.pc = "done", !.blob = EmptyMap, !.wok = FALSE])
    /\ UNCHANGED <<now, progressBlob, favBlob, fcalls, hist, req, res, appVars>>

\* Storage.getAllProgress() and Storage.getProgress(webtoonId) up to the await
StartGetAll ==
    /\ BagCardinality(pcalls) < MaxCalls
    /\ pcalls' = pcalls (+) SetToBag({ProgressCall("getAll", "", 0)})
    /\ UNCHANGED <<now, progressBlob, favBlob, fcalls, req, res, appVars>>

StartGet(id) ==
    /\ BagCardinality(pcalls) < MaxCalls
    /\ pcalls' = pcalls (+) SetToBag({ProgressCall("get", id, 0)})
    /\ UNCHANGED <<now, progressBlob, favBlob, fcalls, req, res, appVars>>

\* the promise of the call is settled; the caller is done with it
ProgressReturn(c) ==
    /\ c.pc = "done"
    /\ pcalls' = pcalls (-) SetToBag({c})
    /\ UNCHANGED <<now, progressBlob, favBlob, fcalls, hist, req, res, appVars>>

\* handleNavigationStateChange -> updateWebtoonProgress -> Storage.updateProgress.
\* The handler is synchronous and drops the promise, so the next navigation
\* event is handled while earlier updates are still suspended.
NavUpdate(id, e) ==
    /\ StartUpdate(id, e)
    /\ UNCHANGED hist

\* ------------------------------------------------------ favorites service
Favorite(id, t) == [webtoonId |-> id, addedAt |-> t]

\* favorites.some((f) => f.webtoonId === webtoonId)
Some(favorites, id) == \E i \in 1..Len(favorites) : favorites[i].webtoonId = id

\* favorites.filter((f) => f.webtoonId !== webtoonId)
Filter(favorites, id) ==
    LET Keep(f) == f.webtoonId # id IN SelectSeq(favorites, Keep)

\* a call of toggleFavorite (suspended in isFavorite: pc = "check") or of
\* addFavorite / removeFavorite / isFavorite / getFavorites (suspended in
\* getFavorites: pc = "read").
\* inner is the function that runs the read-modify-write; ret is the value
\* the call returns and threw whether it rejects; rok turns FALSE when the
\* read of getFavorites / isFavorite fails, wok when the setItem of the call
\* rejects; atDone is the membership of id in storage
\* when the call settled.
FavoriteCall(op, id) ==
    [op |-> op, id |-> id, pc |-> IF op = "toggle" THEN "check" ELSE "read",
     inner |-> IF op = "toggle" THEN "none" ELSE op,
     blob |-> <<>>, ret |-> FALSE, wrote |-> FALSE, wok |-> TRUE, atDone |-> FALSE,
     threw |-> FALSE, rok |-> TRUE]

\* variant: toggleFavorite returns the membership it found, not the flipped one
ToggleAfterCheck_Unflipped(c, favorites) ==
    IF Some(favorites, c.id)
    THEN [c EXCEPT !.inner = "remove", !.ret = TRUE, !.pc = "read"]
    ELSE [c EXCEPT !.inner = "add", !.ret = FALSE, !.pc = "read"]

\* toggleFavorite after `await isFavorite(webtoonId)`: choose the branch, whose
\* callee suspends in its own getFavorites.
ToggleAfterCheck(c, favorites) ==
    IF Some(favorites, c.id)
    THEN [c EXCEPT !.inner = "remove", !.ret = FALSE, !.pc = "read"]
    ELSE [c EXCEPT !.inner = "add", !.ret = TRUE, !.pc = "read"]

\* variant: the record is pushed without the membership test
AddAfterRead_NoTest(c, favorites, t) ==
    [c EXCEPT !.blob = Append(favorites, Favorite(c.id, t)),
              !.pc = "write", !.wrote = TRUE]

\* variant: a record that is already there is replaced by a fresh one
AddAfterRead_Refresh(c, favorites, t) ==
    [c EXCEPT !.blob = Append(Filter(favorites, c.id), Favorite(c.id, t)),
              !.pc = "write", !.wrote = TRUE]

\* addFavorite after `await getFavorites()`
AddAfterRead(c, favorites, t) ==
    IF ~Some(favorites, c.id)
    THEN [c EXCEPT !.blob = Append(favorites, Favorite(c.id, t)),
                   !.pc = "write", !.wrote = TRUE]
    ELSE [c EXCEPT !.pc = "done"]

\* variant: the filter keeps nothing
RemoveAfterRead_DropAll(c, favorites) ==
    [c EXCEPT !.blob = <<>>, !.pc = "write", !.wrote = TRUE]

\* removeFavorite after `await getFavorites()`
RemoveAfterRead(c, favorites) ==
    [c EXCEPT !.blob = Filter(favorites, c.id), !.pc = "write", !.wrote = TRUE]

\* isFavorite after `await getFavorites()`
IsFavoriteAfterRead(c, favorites) ==
    [c EXCEPT !.pc = "done", !.ret = Some(favorites, c.id)]

\* the code that runs when the getItem of call c has yielded `favorites`
FavoritesAfterRead(c, favorites, t) ==
    IF c.pc = "check" THEN ToggleAfterCheck(c, favorites)
    ELSE IF c.inner = "add" THEN AddAfterRead(c, favorites, t)
    ELSE IF c.inner = "remove" THEN RemoveAfterRead(c, favorites)
    ELSE IF c.inner = "isFavorite" THEN IsFavoriteAfterRead(c, favorites)
    ELSE [c EXCEPT !.pc = "done", !.ret = favorites]

\* the try block of getFavorites: exc when getItem rejects or JSON.parse
\* throws
GetFavoritesTry(read) ==
    IF ~read.ok \/ ~read.data.json THEN [exc |-> TRUE, val |-> <<>>]
    ELSE [exc |-> FALSE, val |-> ParseFavorites(read.data)]

\* variant: getFavorites without its catch
GetFavorites_NoCatch(read) == GetFavoritesTry(read)

\* getFavorites: the catch returns []
GetFavorites(read) ==
    IF GetFavoritesTry(read).exc THEN [exc |-> FALSE, val |-> <<>>]
    ELSE GetFavoritesTry(read)

\* the caller of getFavorites resumes.  r is what getFavorites gave; a
\* rejection of it lands in the catch of addFavorite / removeFavorite, and
\* leaves isFavorite, and toggleFavorite awaiting it, which have none.
FavoritesResume(c, r, t) ==
    IF ~r.exc THEN FavoritesAfterRead(c, r.val, t)
    ELSE IF c.inner = "getFavorites"
    THEN [c EXCEPT !.pc = "done", !.ret = r.val, !.threw = TRUE]
    ELSE IF c.pc = "check" \/ c.inner = "isFavorite"
    THEN [c EXCEPT !.pc = "done", !.threw = TRUE]
    ELSE [c EXCEPT !.pc = "done"]

\* a call that has settled records the membership of its id in `stored`
Settled(c, stored) ==
    IF c.pc = "done" THEN [c EXCEPT !.atDone = Some(stored, c.id)] ELSE c

\* a call of getFavorites / isFavorite records whether its read went well
Noted(c, ok) ==
    IF c.inner \in {"getFavorites", "isFavorite"} THEN [c EXCEPT !.rok = ok] ELSE c

\* Storage.toggleFavorite / addFavorite / removeFavorite up to the first await
StartFavorite(op, id) ==
    /\ BagCardinality(fcalls) < MaxCalls
    /\ fcalls' = fcalls (+) SetToBag({FavoriteCall(op, id)})
    /\ UNCHANGED <<now, progressBlob, pcalls, favBlob, req, res, appVars>>

\* getFavorites: AsyncStorage.getItem resolves and the text parses
FavGetItemOk(c) ==
    /\ c.pc \in {"check", "read"}
    /\ fcalls' = Replace(fcalls, c,
            Settled(FavoritesResume(
                        Noted(c, ~GetFavoritesTry(Resolved(favBlob)).exc),
                        GetFavorites(Resolved(favBlob)), now),
                    ParseFavorites(favBlob)))
    /\ UNCHANGED <<now, progressBlob, pcalls, favBlob, hist, req, res, appVars>>

\* getFavorites: getItem rejects or JSON.parse throws; the catch returns []
FavGetItemFail(c) ==
    /\ c.pc \in {"check", "read"}
    /\ fcalls' = Replace(fcalls, c,
            Settled(FavoritesResume(Noted(c, FALSE), GetFavorites(Rejected), now),
                    ParseFavorites(favBlob)))
    /\ UNCHANGED <<now, progressBlob, pcalls, favBlob, hist, req, res, appVars>>

\* AsyncStorage.setItem(FAVORITES, JSON.stringify(list)) resolves
FavSetItemOk(c) ==
    /\ c.pc = "write"
    /\ favBlob' = Stringify(c.blob)
    /\ fcalls' = Replace(fcalls, c,
            Settled([c EXCEPT !.pc = "done", !.blob = <<>>], c.blob))
    /\ UNCHANGED <<now, progressBlob, pcalls, hist, req, res, appVars>>

\* setItem rejects; the catch of addFavorite / removeFavorite logs it and the
\* call returns normally
FavSetItemFail(c) ==
    /\ c.pc = "write"
    /\ fcalls' = Replace(fcalls, c,
            Settled([c EXCEPT !.pc = "done", !.blob = <<>>, !.wok = FALSE],
                    ParseFavorites(favBlob)))
    /\ UNCHANGED <<now, progressBlob, pcalls, favBlob, hist, req, res, appVars>>

\* the promise of the call is settled; the caller is done with it
FavReturn(c) ==
    /\ c.pc = "done"
    /\ fcalls' = fcalls (-) SetToBag({c})
    /\ UNCHANGED <<now, progressBlob, pcalls, favBlob, hist, req, res, appVars>>

\* handleFavoritePress -> toggleFavorite of the context -> Storage.toggleFavorite.
\* The handler drops the promise, so a second press is handled while the
\* first toggle is still suspended.
PressFavorite(id) ==
    /\ StartFavorite("toggle", id)
    /\ UNCHANGED hist

\* Storage.addFavorite(webtoonId) called on its own
AddFavorite(id) ==
    /\ StartFavorite("add", id)
    /\ UNCHANGED hist

\* Storage.removeFavorite(webtoonId) called on its own
RemoveFavorite(id) ==
    /\ StartFavorite("remove", id)
    /\ UNCHANGED hist

\* ------------------------------------------------------ episode parser
\* A url is a sequence of characters.  An episodePattern is the sequence of
\* the tokens of its source text: a literal prefix followed by at most one
\* quantified character class, in a capture group or not.
DigitChars == <<"0", "1", "2", "3", "4", "5", "6", "7", "8", "9">>
Digits == {DigitChars[i] : i \in 1..10}
WordChars == Digits \cup {"n", "o", "a", "_", "e", "p", "i", "s", "d", "I", "w"}

DigitValue(ch) == (CHOOSE i \in 1..10 : DigitChars[i] = ch) - 1

ClassOf(tok) == IF tok = "\\d" THEN Digits ELSE WordChars

MinOf(tok) == IF tok = "+" THEN 1 ELSE 0

\* JavaScript values the parser handles: null, NaN, a Number holding an
\* integer the model computes exactly (int), a finite Number beyond that
\* range, which is the double nearest to the integer and itself an integer
\* (big), and Infinity (inf).  For big and inf, val is the sign.
NaN == [kind |-> "nan", val |-> 0]

IsNaN(n) == n.kind = "nan"

\* n > 0
Positive(n) == n.kind \in {"int", "big", "inf"} /\ n.val > 0

\* Number.isInteger(n)
IsInteger(n) == n.kind \in {"int", "big"}

\* the tokens before the class or group of the pattern
LiteralLen(p) ==
    LET special == {i \in 1..Len(p) : p[i] \in {"(", "\\d", "\\w"}}
    IN  IF special = {} THEN Len(p)
        ELSE (CHOOSE i \in special : \A j \in special : i <= j) - 1

\* [sign?] class quantifier
Atom(toks, group) ==
    LET signed == Len(toks) >= 2 /\ toks[1] = "-" /\ toks[2] = "?"
        body == IF signed THEN SubSeq(toks, 3, Len(toks)) ELSE toks
    IN  [group |-> group, signed |-> signed,
         class |-> ClassOf(body[1]), min |-> MinOf(body[2])]

\* new RegExp(webtoon.episodePattern): a group that is opened and not closed
\* is a SyntaxError (ok = FALSE).
Compile(p) ==
    LET n == LiteralLen(p)
        lit == SubSeq(p, 1, n)
        rest == SubSeq(p, n + 1, Len(p))
    IN  IF rest = <<>>
        THEN [ok |-> TRUE, lit |-> lit,
              atom |-> [group |-> FALSE, signed |-> FALSE, class |-> {}, min |-> 0]]
        ELSE IF rest[1] = "("
        THEN IF rest[Len(rest)] # ")"
             THEN [ok |-> FALSE, lit |-> lit,
                   atom |-> [group |-> FALSE, signed |-> FALSE, class |-> {}, min |-> 0]]
             ELSE [ok |-> TRUE, lit |-> lit,
                   atom |-> Atom(SubSeq(rest, 2, Len(rest) - 1), TRUE)]
        ELSE [ok |-> TRUE, lit |-> lit, atom |-> Atom(rest, FALSE)]

\* the length of the longest run of characters of class at position j of s
RunLen(s, j, class) ==
    LET stops == {k \in j..Len(s) : s[k] \notin class}
    IN  IF stops = {} THEN Len(s) - j + 1
        ELSE (CHOOSE k \in stops : \A m \in stops : k <= m) - j

LiteralAt(s, i, lit) ==
    /\ i + Len(lit) - 1 <= Len(s)
    /\ \A k \in 1..Len(lit) : s[i + k - 1] = lit[k]

\* the text the atom takes at position j (greedy, the sign tried first), or
\* no match
AtomAt(s, j, atom) ==
    IF atom.signed /\ j <= Len(s) /\ s[j] = "-"
       /\ RunLen(s, j + 1, atom.class) >= atom.min
    THEN [found |-> TRUE, text |-> SubSeq(s, j, j + RunLen(s, j + 1, atom.class))]
    ELSE IF RunLen(s, j, atom.class) >= atom.min
    THEN [found |-> TRUE, text |-> SubSeq(s, j, j + RunLen(s, j, atom.class) - 1)]
    ELSE [found |-> FALSE, text |-> <<>>]

\* url.match(regex), regex without flags: the leftmost match.  defined tells
\* whether match[1] is a string (the pattern has a group).
Match(s, re) ==
    LET starts == {i \in 1..(Len(s) + 1) :
                      LiteralAt(s, i, re.lit) /\ AtomAt(s, i + Len(re.lit), re.atom).found}
    IN  IF starts = {} THEN [found |-> FALSE, defined |-> FALSE, text |-> <<>>]
        ELSE LET i == CHOOSE x \in starts : \A y \in starts : x <= y
             IN  [found |-> TRUE, defined |-> re.atom.group,
                  text |-> AtomAt(s, i + Len(re.lit), re.atom).text]

RECURSIVE DecimalValue(_)
DecimalValue(ds) ==
    IF ds = <<>> THEN 0
    ELSE 10 * DecimalValue(SubSeq(ds, 1, Len(ds) - 1)) + DigitValue(ds[Len(ds)])

\* 2^1024 - 2^970 in decimal: the least integer that rounds to Infinity as
\* an IEEE 754 double (half an ulp above Number.MAX_VALUE)
OverflowFrom == <<
    "1", "7", "9", "7", "6", "9", "3", "1", "3", "4", "8", "6", "2", "3", "1",
    "5", "8", "0", "7", "9", "3", "7", "2", "8", "9", "7", "1", "4", "0", "5",
    "3", "0", "3", "4", "1", "5", "0", "7", "9", "9", "3", "4", "1", "3", "2",
    "7", "1", "0", "0", "3", "7", "8", "2", "6", "9", "3", "6", "1", "7", "3",
    "7", "7", "8", "9", "8", "0", "4", "4", "4", "9", "6", "8", "2", "9", "2",
    "7", "6", "4", "7", "5", "0", "9", "4", "6", "6", "4", "9", "0", "1", "7",
    "9", "7", "7", "5", "8", "7", "2", "0", "7", "0", "9", "6", "3", "3", "0",
    "2", "8", "6", "4", "1", "6", "6", "9", "2", "8", "8", "7", "9", "1", "0",
    "9", "4", "6", "5", "5", "5", "5", "4", "7", "8", "5", "1", "9", "4", "0",
    "4", "0", "2", "6", "3", "0", "6", "5", "7", "4", "8", "8", "6", "7", "1",
    "5", "0", "5", "8", "2", "0", "6", "8", "1", "9", "0", "8", "9", "0", "2",
    "0", "0", "0", "7", "0", "8", "3", "8", "3", "6", "7", "6", "2", "7", "3",
    "8", "5", "4", "8", "4", "5", "8", "1", "7", "7", "1", "1", "5", "3", "1",
    "7", "6", "4", "4", "7", "5", "7", "3", "0", "2", "7", "0", "0", "6", "9",
    "8", "5", "5", "5", "7", "1", "3", "6", "6", "9", "5", "9", "6", "2", "2",
    "8", "4", "2", "9", "1", "4", "8", "1", "9", "8", "6", "0", "8", "3", "4",
    "9", "3", "6", "4", "7", "5", "2", "9", "2", "7", "1", "9", "0", "7", "4",
    "1", "6", "8", "4", "4", "4", "3", "6", "5", "5", "1", "0", "7", "0", "4",
    "3", "4", "2", "7", "1", "1", "5", "5", "9", "6", "9", "9", "5", "0", "8",
    "0", "9", "3", "0", "4", "2", "8", "8", "0", "1", "7", "7", "9", "0", "4",
    "1", "7", "4", "4", "9", "7", "7", "9", "2">>

\* a >= b for digit runs without leading zeros
DecimalGeq(a, b) ==
    IF Len(a) # Len(b) THEN Len(a) > Len(b)
    ELSE LET diff == {i \in 1..Len(a) : a[i] # b[i]}
         IN  \/ diff = {}
             \/ LET i == CHOOSE x \in diff : \A y \in diff : x <= y
                IN  DigitValue(a[i]) > DigitValue(b[i])

\* the Number for a run of decimal digits: exact up to nine significant
\* digits, beyond that the nearest double, which is Infinity from
\* OverflowFrom on (engines may round digits after the 20th, which moves
\* the boundary by less than one part in 10^19)
NumberOf(ds, sign) ==
    LET sig == SubSeq(ds, RunLen(ds, 1, {"0"}) + 1, Len(ds))
    IN  IF Len(sig) <= 9 THEN [kind |-> "int", val |-> sign * DecimalValue(sig)]
        ELSE IF DecimalGeq(sig, OverflowFrom) THEN [kind |-> "inf", val |-> sign]
        ELSE [kind |-> "big", val |-> sign]

\* parseInt(text, 10): an optional sign, then the longest prefix of digits;
\* NaN when there is no digit.  (The classes of the patterns take no white
\* space, which parseInt would skip.)
ParseInt(text) ==
    LET neg == Len(text) >= 1 /\ text[1] = "-"
        rest == IF neg THEN SubSeq(text, 2, Len(text)) ELSE text
        n == RunLen(rest, 1, Digits)
    IN  IF n = 0 THEN NaN
        ELSE NumberOf(SubSeq(rest, 1, n), IF neg THEN -1 ELSE 1)

\* the try block of extractEpisodeFromUrl: exc when new RegExp throws
ExtractTry(url, webtoon) ==
    LET regex == Compile(webtoon.episodePattern)
        match == Match(url, regex)
        episodeNumber == ParseInt(match.text)
    IN  IF ~regex.ok THEN [exc |-> TRUE, val |-> Null]
        ELSE IF match.found /\ match.defined /\ match.text # <<>>
                /\ ~IsNaN(episodeNumber) /\ Positive(episodeNumber)
        THEN [exc |-> FALSE, val |-> episodeNumber]
        ELSE [exc |-> FALSE, val |-> Null]

\* extractEpisodeFromUrl(url, webtoon): the catch turns every exception of
\* the try block into null.
ExtractEpisodeFromUrl(url, webtoon) ==
    LET r == ExtractTry(url, webtoon)
    IN  IF r.exc THEN [threw |-> FALSE, val |-> Null]
        ELSE [threw |-> FALSE, val |-> r.val]

NoCall == [url |-> <<>>, webtoon |-> [episodePattern |-> <<>>]]
Pending == [done |-> FALSE, threw |-> FALSE, val |-> Null]

\* a call of extractEpisodeFromUrl(req.url, req.webtoon) runs
Extract ==
    /\ ~res.done
    /\ res' = [done |-> TRUE,
               threw |-> ExtractEpisodeFromUrl(req.url, req.webtoon).threw,
               val |-> ExtractEpisodeFromUrl(req.url, req.webtoon).val]
    /\ UNCHANGED <<now, progressBlob, pcalls, favBlob, fcalls, hist, req, appVars>>

\* inputs of the parser: every url of up to MaxUrlLen characters over
\* UrlChars with every pattern shape over the parameter name "n", and the
\* pattern of the first catalog entry with urls that carry long numbers
MaxUrlLen == 4

UrlChars == {"n", "=", "0", "1", "-", "a"}

RECURSIVE Strings(_)
Strings(n) ==
    IF n = 0 THEN {<<>>}
    ELSE Strings(n - 1) \cup
         {Append(s, ch) : s \in {x \in Strings(n - 1) : Len(x) = n - 1}, ch \in UrlChars}

Patterns == {
    <<"n", "=", "(", "\\d", "+", ")">>,
    <<"n", "=", "(", "\\d", "*", ")">>,
    <<"n", "=", "(", "-", "?", "\\d", "+", ")">>,
    <<"n", "=", "(", "\\w", "+", ")">>,
    <<"n", "=", "\\d", "+">>,
    <<"n", "=", "(", "\\d", "+">>,
    <<"n", "=">> }

\* DUMMY_WEBTOONS[0].episodePattern, "no=(\\d+)"
NaverPattern == <<"n", "o", "=", "(", "\\d", "+", ")">>

Repeat(ch, n) == [i \in 1..n |-> ch]

LongNumbers ==
    {Repeat("9", 9), Repeat("9", 10), <<"1">> \o Repeat("0", 308), Repeat("9", 309)}

LongUrls == {<<"a", "n", "o", "=">> \o ds \o <<"a">> : ds \in LongNumbers}

ParseInputs ==
    {[url |-> u, webtoon |-> [episodePattern |-> p]] : u \in Strings(MaxUrlLen), p \in Patterns}
    \cup {[url |-> u, webtoon |-> [episodePattern |-> NaverPattern]] : u \in LongUrls}

\* ------------------------------------------------------------ url scope
\* For the scope guard a url is a sequence of lexemes: a word (a run of
\* letters, kept whole), a digit, or a punctuation character.
Punctuation == {":", "/", "?", "#", "@", ".", "=", "&", "-", "(", ")", "+", "\\"}

IsWord(x) == x \notin Punctuation \cup Digits

\* the catalog (constants/index.ts): id, url and episodePattern of each entry
DUMMY_WEBTOONS == <<
    [id |-> "1",
     url |-> <<"https", ":", "/", "/", "comic", ".", "naver", ".", "com", "/",
               "webtoon", "/", "list", "?", "titleId", "=",
               "7", "0", "3", "8", "4", "6", "&", "tab", "=", "finish">>,
     episodePattern |-> <<"n", "o", "=", "(", "\\d", "+", ")">>],
    [id |-> "2",
     url |-> <<"https", ":", "/", "/", "page", ".", "kakao", ".", "com", "/",
               "content", "/", "4", "9", "9", "9", "4", "5", "6", "6">>,
     episodePattern |-> <<"e", "p", "i", "s", "o", "d", "e", "I", "d", "=",
                          "(", "\\d", "+", ")">>],
    [id |-> "3",
     url |-> <<"https", ":", "/", "/", "www", ".", "lezhin", ".", "com", "/",
               "ko", "/", "comic", "/", "sample">>,
     episodePattern |-> <<"e", "p", "i", "s", "o", "d", "e", "/",
                          "(", "\\d", "+", ")">>] >>

\* the schemes whose urls always carry a host (URL Standard: special schemes)
SpecialSchemes == {"http", "https"}

\* the position of the first element of s that is in stops, Len(s) + 1 if
\* there is none
Until(s, stops) ==
    LET hits == {i \in 1..Len(s) : s[i] \in stops}
    IN  IF hits = {} THEN Len(s) + 1
        ELSE CHOOSE i \in hits : \A j \in hits : i <= j

\* ASCII lower case, over the words of the model
LowerCase(w) == IF w = "Comic" THEN "comic" ELSE IF w = "NAVER" THEN "naver" ELSE w

NotUrl == [ok |-> FALSE, hostname |-> <<>>]

\* the authority of a url: [userinfo "@"] host [":" port].  The userinfo ends
\* at the last "@"; the host of a special scheme is lower-cased and must not
\* be empty; a port is a run of digits of value at most 65535.  (Hosts of
\* the model are made of letter labels: IPv4 and IPv6 hosts do not occur.)
ParseAuthority(a, special) ==
    LET ats == {i \in 1..Len(a) : a[i] = "@"}
        last == IF ats = {} THEN 0 ELSE CHOOSE i \in ats : \A j \in ats : i >= j
        hostport == SubSeq(a, last + 1, Len(a))
        colon == Until(hostport, {":"})
        host == SubSeq(hostport, 1, colon - 1)
        port == SubSeq(hostport, colon + 1, Len(hostport))
    IN  IF ats # {} /\ hostport = <<>> THEN NotUrl
        ELSE IF host = <<>> /\ (special \/ colon <= Len(hostport)) THEN NotUrl
        ELSE IF \E i \in 1..Len(port) : port[i] \notin Digits THEN NotUrl
        ELSE IF Len(port) > 5 \/ DecimalValue(port) > 65535 THEN NotUrl
        ELSE [ok |-> TRUE,
              hostname |-> IF special THEN [i \in 1..Len(host) |-> LowerCase(host[i])]
                           ELSE host]

\* new URL(s) without a base, as the URL Standard defines it: ok = FALSE when
\* it throws a TypeError.  A url needs a scheme; after a special scheme any
\* number of slashes precedes the authority, after another scheme exactly
\* two do, and without them the url has an opaque path and the hostname "".
ParseURL(s) ==
    IF Len(s) < 2 \/ ~IsWord(s[1]) \/ s[2] # ":" THEN NotUrl
    ELSE LET special == s[1] \in SpecialSchemes
             rest == SubSeq(s, 3, Len(s))
             lead == RunLen(rest, 1, {"/"})
             after == SubSeq(rest, (IF special THEN lead ELSE 2) + 1, Len(rest))
         IN  IF special \/ lead >= 2
             THEN ParseAuthority(
                      SubSeq(after, 1, Until(after, {"/", "?", "#"}) - 1), special)
             ELSE [ok |-> TRUE, hostname |-> <<>>]

\* variant: a host below the host of the item is accepted as well
IsValidTry_Subdomains(url, webtoon) ==
    LET currentUrl == ParseURL(url)
        baseUrl == ParseURL(webtoon.url)
    IN  IF ~currentUrl.ok \/ ~baseUrl.ok THEN [exc |-> TRUE, val |-> FALSE]
        ELSE LET a == currentUrl.hostname
                 b == baseUrl.hostname
             IN  [exc |-> FALSE,
                  val |-> \/ a = b
                          \/ /\ Len(a) > Len(b) + 1
                             /\ SubSeq(a, Len(a) - Len(b), Len(a)) = <<".">> \o b]

\* the try block of isValidWebtoonUrl: exc when one of the two new URL throws
IsValidTry(url, webtoon) ==
    LET currentUrl == ParseURL(url)
        baseUrl == ParseURL(webtoon.url)
    IN  IF ~currentUrl.ok \/ ~baseUrl.ok THEN [exc |-> TRUE, val |-> FALSE]
        ELSE [exc |-> FALSE, val |-> currentUrl.hostname = baseUrl.hostname]

\* isValidWebtoonUrl(url, webtoon): the catch returns false
IsValidWebtoonUrl(url, webtoon) ==
    LET r == IsValidTry(url, webtoon)
    IN  IF r.exc THEN [threw |-> FALSE, val |-> FALSE]
        ELSE [threw |-> FALSE, val |-> r.val]

\* a call of isValidWebtoonUrl(req.url, req.webtoon) runs
Validate ==
    /\ ~res.done
    /\ res' = [done |-> TRUE,
               threw |-> IsValidWebtoonUrl(req.url, req.webtoon).threw,
               val |-> IsValidWebtoonUrl(req.url, req.webtoon).val]
    /\ UNCHANGED <<now, progressBlob, pcalls, favBlob, fcalls, hist, req, appVars>>

\* inputs of the scope guard: urls put together from a scheme, slashes, a
\* userinfo, a host, a port and a tail, against the urls of the catalog, the
\* same with a port, and text that is no url
NaverHost == <<"comic", ".", "naver", ".", "com">>

Schemes == {<<"https", ":">>, <<"http", ":">>, <<"about", ":">>, <<>>}

Slashes == {<<"/", "/">>, <<"/">>, <<>>}

UserInfos == {<<>>, NaverHost \o <<"@">>}

Hosts == {NaverHost, <<"m", ".">> \o NaverHost, <<"naver", ".", "com">>,
          <<"Comic", ".", "NAVER", ".", "com">>,
          <<"page", ".", "kakao", ".", "com">>, <<>>}

Ports == {<<>>, <<":">>, <<":", "8", "0">>, <<":", "9", "9", "9", "9", "9">>,
          <<":", "com">>}

Tails == {<<>>, <<"/", "webtoon", "?", "n", "o", "=", "1">>, <<"?", "n", "o", "=", "1">>}

ScopeUrls ==
    {sc \o sl \o ui \o h \o po \o tl :
        sc \in Schemes, sl \in Slashes, ui \in UserInfos, h \in Hosts,
        po \in Ports, tl \in Tails}

ItemUrls ==
    {DUMMY_WEBTOONS[i].url : i \in 1..Len(DUMMY_WEBTOONS)}
    \cup {<<"https", ":", "/", "/">> \o NaverHost \o <<":", "8", "0", "/", "webtoon">>,
          NaverHost \o <<"/", "webtoon">>}

ScopeInputs == {[url |-> u, webtoon |-> [url |-> b]] : u \in ScopeUrls, b \in ItemUrls}

\* ---------------------------------------------------------- url builder
\* the source text of a pattern, character by character
RECURSIVE SourceText(_)
SourceText(p) ==
    IF p = <<>> THEN <<>>
    ELSE (IF p[1] = "\\d" THEN <<"\\", "d">>
          ELSE IF p[1] = "\\w" THEN <<"\\", "w">>
          ELSE <<p[1]>>) \o SourceText(Tail(p))

\* `${episode}` for a natural number: its decimal digits below 10^21, the
\* exponent form from 10^21 on (Number::toString)
RECURSIVE NumberToString(_)
NumberToString(n) ==
    IF n = Big THEN <<"1", "e", "+", "2", "1">>
    ELSE IF n < 10 THEN <<DigitChars[n + 1]>>
    ELSE NumberToString(n \div 10) \o <<DigitChars[(n % 10) + 1]>>

\* the text  =(\d+)  and the text  /(\d+)
QueryShape == <<"=", "(", "\\", "d", "+", ")">>
PathShape == <<"/", "(", "\\", "d", "+", ")">>

\* text.match(/(\w+)SHAPE/), SHAPE a literal: the leftmost run of word
\* characters that SHAPE follows; name is capture group 1
NameMatch(text, shape) ==
    LET starts == {i \in 1..Len(text) :
                      /\ text[i] \in WordChars
                      /\ LiteralAt(text, i + RunLen(text, i, WordChars), shape)}
    IN  IF starts = {} THEN [found |-> FALSE, name |-> <<>>]
        ELSE LET i == CHOOSE x \in starts : \A y \in starts : x <= y
             IN  [found |-> TRUE,
                  name |-> SubSeq(text, i, i + RunLen(text, i, WordChars) - 1)]

\* url.includes('?')
Includes(url, ch) == \E i \in 1..Len(url) : url[i] = ch

\* variant: the separator is always '?'
BuildEpisodeUrl_Question(webtoon, episode) ==
    LET paramMatch == NameMatch(SourceText(webtoon.episodePattern), QueryShape)
        pathMatch == NameMatch(SourceText(webtoon.episodePattern), PathShape)
    IN  IF paramMatch.found
        THEN webtoon.url \o <<"?">> \o paramMatch.name \o <<"=">> \o NumberToString(episode)
        ELSE IF pathMatch.found
        THEN webtoon.url \o <<"/">> \o pathMatch.name \o <<"/">> \o NumberToString(episode)
        ELSE webtoon.url

\* buildEpisodeUrl(webtoon, episode)
BuildEpisodeUrl(webtoon, episode) ==
    LET paramMatch == NameMatch(SourceText(webtoon.episodePattern), QueryShape)
        pathMatch == NameMatch(SourceText(webtoon.episodePattern), PathShape)
        separator == IF Includes(webtoon.url, "?") THEN <<"&">> ELSE <<"?">>
    IN  IF paramMatch.found
        THEN webtoon.url \o separator \o paramMatch.name \o <<"=">> \o NumberToString(episode)
        ELSE IF pathMatch.found
        THEN webtoon.url \o <<"/">> \o pathMatch.name \o <<"/">> \o NumberToString(episode)
        ELSE webtoon.url

\* a call of buildEpisodeUrl(req.webtoon, req.episode) runs; nothing in it
\* throws
Build ==
    /\ ~res.done
    /\ res' = [done |-> TRUE, threw |-> FALSE,
               val |-> BuildEpisodeUrl(req.webtoon, req.episode)]
    /\ UNCHANGED <<now, progressBlob, pcalls, favBlob, fcalls, hist, req, appVars>>

\* inputs of the builder: the patterns of the catalog and of the parser
\* inputs, patterns with both shapes, with a shape twice and with a shape
\* after other text, over the urls of the catalog and a url that ends in '?'
BuildPatterns ==
    Patterns
    \cup {DUMMY_WEBTOONS[i].episodePattern : i \in 1..Len(DUMMY_WEBTOONS)}
    \cup {<<"e", "p", "/", "(", "\\d", "+", ")", "&", "n", "o", "=", "(", "\\d", "+", ")">>,
          <<"n", "o", "=", "(", "\\d", "+", ")", "/", "e", "p", "/", "(", "\\d", "+", ")">>,
          <<"a", "=", "(", "\\d", "+", ")", "&", "n", "=", "(", "\\d", "+", ")">>,
          <<"a", "-", "n", "o", "/", "(", "\\d", "+", ")">>,
          <<"\\d", "=", "(", "\\d", "+", ")">>,
          <<"=", "(", "\\d", "+", ")">>,
          <<"e", "p", "/", "(", "\\d", "*", ")">>}

BuildUrls ==
    {DUMMY_WEBTOONS[i].url : i \in 1..Len(DUMMY_WEBTOONS)}
    \cup {<<"https", ":", "/", "/", "page", ".", "kakao", ".", "com", "/", "?">>}

BuildEpisodes == {1, 5, 10, 123}

BuildInputs ==
    {[webtoon |-> [url |-> u, episodePattern |-> p], episode |-> e] :
        u \in BuildUrls, p \in BuildPatterns, e \in BuildEpisodes}

\* ------------------------------------------------------- settings store
DEFAULT_SETTINGS == [theme |-> "light", notifications |-> TRUE]

AbsentSettings == [has |-> FALSE, json |-> TRUE, val |-> EmptyMap]

\* { ...a, ...b }
Spread(a, b) == [k \in DOMAIN a \cup DOMAIN b |-> IF k \in DOMAIN b THEN b[k] ELSE a[k]]

\* a call of getSettings / updateSettings (suspended in the getItem of
\* getSettings: pc = "read") or of clearAllData (suspended in multiRemove:
\* pc = "remove").  found tells whether multiRemove found all three entries
\* holding stored JSON.
SettingsCall(op, settings) ==
    [op |-> op, settings |-> settings,
     pc |-> IF op = "clearAllData" THEN "remove" ELSE "read",
     blob |-> EmptyMap, ret |-> Undefined, threw |-> FALSE, rok |-> TRUE, wok |-> TRUE,
     found |-> FALSE]

\* variant: the parsed settings are returned without the defaults under them
GetSettingsTry_NoBackfill(read) ==
    IF ~read.ok \/ ~read.data.json THEN [exc |-> TRUE, val |-> DEFAULT_SETTINGS]
    ELSE [exc |-> FALSE,
          val |-> IF read.data.has THEN read.data.val ELSE DEFAULT_SETTINGS]

\* the try block of getSettings: exc when getItem rejects or JSON.parse
\* throws
GetSettingsTry(read) ==
    IF ~read.ok \/ ~read.data.json THEN [exc |-> TRUE, val |-> DEFAULT_SETTINGS]
    ELSE [exc |-> FALSE,
          val |-> IF read.data.has THEN Spread(DEFAULT_SETTINGS, read.data.val)
                  ELSE DEFAULT_SETTINGS]

\* getSettings: the catch returns DEFAULT_SETTINGS
GetSettings(read) ==
    IF GetSettingsTry(read).exc THEN [exc |-> FALSE, val |-> DEFAULT_SETTINGS]
    ELSE GetSettingsTry(read)

\* the caller of the getItem of getSettings resumes: getSettings returns, or
\* updateSettings, in its try block, merges and issues setItem
SettingsAfterRead(c, r) ==
    IF c.op = "getSettings"
    THEN [c EXCEPT !.pc = "done", !.ret = r.val, !.threw = r.exc]
    ELSE IF r.exc THEN [c EXCEPT !.pc = "done"]
    ELSE [c EXCEPT !.pc = "write", !.blob = Spread(r.val, c.settings)]

\* Storage.getSettings(), updateSettings(settings), clearAllData() up to the
\* first await
StartSettings(op, settings) ==
    /\ BagCardinality(scalls) < MaxCalls
    /\ scalls' = scalls (+) SetToBag({SettingsCall(op, settings)})
    /\ UNCHANGED <<now, progressBlob, pcalls, favBlob, fcalls, req, res,
                   settingsBlob, hook, provider, screen>>

\* getSettings: AsyncStorage.getItem resolves; JSON.parse may still throw
SettingsGetItemOk(c) ==
    /\ c.pc = "read"
    /\ scalls' = Replace(scalls, c,
            SettingsAfterRead(
                [c EXCEPT !.rok = ~GetSettingsTry(Resolved(settingsBlob)).exc],
                GetSettings(Resolved(settingsBlob))))
    /\ UNCHANGED <<now, progressBlob, pcalls, favBlob, fcalls, hist, req, res,
                   settingsBlob, hook, provider, screen>>

\* getSettings: getItem rejects
SettingsGetItemFail(c) ==
    /\ c.pc = "read"
    /\ scalls' = Replace(scalls, c,
            SettingsAfterRead([c EXCEPT !.rok = FALSE], GetSettings(Rejected)))
    /\ UNCHANGED <<now, progressBlob, pcalls, favBlob, fcalls, hist, req, res,
                   settingsBlob, hook, provider, screen>>

\* AsyncStorage.setItem(SETTINGS, JSON.stringify(newSettings)) resolves
SettingsSetItemOk(c) ==
    /\ c.pc = "write"
    /\ settingsBlob' = Stringify(c.blob)
    /\ scalls' = Replace(scalls, c, [c EXCEPT !.pc = "done", !.blob = EmptyMap])
    /\ UNCHANGED <<now, progressBlob, pcalls, favBlob, fcalls, hist, req, res,
                   hook, provider, screen>>

\* setItem rejects; the catch of updateSettings logs it
SettingsSetItemFail(c) ==
    /\ c.pc = "write"
    /\ scalls' = Replace(scalls, c, [c EXCEPT !.pc = "done", !.blob = EmptyMap, !.wok = FALSE])
    /\ UNCHANGED <<now, progressBlob, pcalls, favBlob, fcalls, hist, req, res,
                   settingsBlob, hook, provider, screen>>

\* variant: multiRemove without the settings key
MultiRemoveOk_TwoKeys(c) ==
    /\ c.pc = "remove"
    /\ progressBlob' = AbsentProgress
    /\ favBlob' = AbsentFavorites
    /\ scalls' = Replace(scalls, c,
            [c EXCEPT !.pc = "done",
                      !.found = /\ progressBlob.has /\ progressBlob.json
                                /\ favBlob.has /\ favBlob.json
                                /\ settingsBlob.has /\ settingsBlob.json])
    /\ UNCHANGED <<now, pcalls, fcalls, hist, req, res, hook, provider, screen,
                   settingsBlob>>

\* clearAllData: multiRemove of the three keys resolves
MultiRemoveOk(c) ==
    /\ c.pc = "remove"
    /\ progressBlob' = AbsentProgress
    /\ favBlob' = AbsentFavorites
    /\ settingsBlob' = AbsentSettings
    /\ scalls' = Replace(scalls, c,
            [c EXCEPT !.pc = "done",
                      !.found = /\ progressBlob.has /\ progressBlob.json
                                /\ favBlob.has /\ favBlob.json
                                /\ settingsBlob.has /\ settingsBlob.json])
    /\ UNCHANGED <<now, pcalls, fcalls, hist, req, res, hook, provider, screen>>

\* clearAllData: multiRemove rejects, nothing is removed; the catch logs it
MultiRemoveFail(c) ==
    /\ c.pc = "remove"
    /\ scalls' = Replace(scalls, c, [c EXCEPT !.pc = "done", !.wok = FALSE])
    /\ UNCHANGED <<now, progressBlob, pcalls, favBlob, fcalls, hist, req, res,
                   settingsBlob, hook, provider, screen>>

\* the promise of the call is settled; the caller is done with it
SettingsReturn(c) ==
    /\ c.pc = "done"
    /\ scalls' = scalls (-) SetToBag({c})
    /\ UNCHANGED <<now, progressBlob, pcalls, favBlob, fcalls, hist, req, res,
                   settingsBlob, hook, provider, screen>>

\* the arguments updateSettings is called with
SettingsUpdates == {[notifications |-> TRUE], [notifications |-> FALSE], [theme |-> "dark"]}

\* ------------------------------------------------------ React components
\* the item the viewer screen was opened for (route.params.webtoon)
Webtoon == DUMMY_WEBTOONS[1]

\* useState initial values of useProgress, FavoritesProvider, WebViewScreen
InitApp ==
    /\ settingsBlob = AbsentSettings
    /\ scalls = EmptyBag
    /\ hook = [progress |-> EmptyMap, loading |-> TRUE]
    /\ provider = [favorites |-> <<>>, favoriteIds |-> {}, loading |-> TRUE]
    /\ screen = [currentUrl |-> Webtoon.url, detectedEpisode |-> Null]

\* ------------------------------------------ sequential use of the stores
\* hist records, for runs in which each call returns before the next one
\* starts: the entry as the running call found it, the clock at its start,
\* and the highest episode passed to updateProgress since the record of an
\* item was last cleared.
\* For the favorites it records the same of the running call (fcur) and of
\* the call that ran before it (fprev).
NoFavCall == [op |-> "none", id |-> "", before |-> AbsentFavorites]

\* For the viewer it records the url of the last navigation event, whether
\* the event before it had the same url and led to an update (dup), and the
\* stored entry and the cached map as that event found them.
NoNav == [url |-> <<>>, dup |-> FALSE, blob |-> AbsentProgress, cache |-> EmptyMap]

\* For the settings it records the entry as the running call found it
\* (sBefore).
NoHist == [pBefore |-> AbsentProgress, t0 |-> 0, maxEp |-> [i \in Items |-> 0],
           fcur |-> NoFavCall, fprev |-> NoFavCall, nav |-> NoNav,
           sBefore |-> AbsentSettings]

SeqUpdate(id, e) ==
    /\ pcalls = EmptyBag
    /\ StartUpdate(id, e)
    /\ hist' = [hist EXCEPT !.pBefore = progressBlob, !.t0 = now,
                            !.maxEp[id] = Max(@, e)]

SeqClear(id) ==
    /\ pcalls = EmptyBag
    /\ StartClear(id)
    /\ hist' = [hist EXCEPT !.pBefore = progressBlob, !.t0 = now, !.maxEp[id] = 0]

SeqFavorite(op, id) ==
    /\ fcalls = EmptyBag
    /\ StartFavorite(op, id)
    /\ hist' = [hist EXCEPT !.fprev = hist.fcur,
                            !.fcur = [op |-> op, id |-> id, before |-> favBlob]]

SeqSettings(op, settings) ==
    /\ scalls = EmptyBag
    /\ StartSettings(op, settings)
    /\ hist' = [hist EXCEPT !.sBefore = settingsBlob]

\* ------------------------------------------- viewer screen, useProgress
\* the urls the embedded browser reports: the url of the item, its episode
\* urls (episode 0 and an episode of 309 digits as well), and an episode
\* url on another host, on a subdomain of the host of the item, and without
\* a scheme
NavUrls ==
    {Webtoon.url}
    \cup {BuildEpisodeUrl(Webtoon, e) : e \in 0..MaxEpisode}
    \cup {Webtoon.url \o <<"&", "n", "o", "=">> \o Repeat("9", 309)}
    \cup {<<"https", ":", "/", "/", "page", ".", "kakao", ".", "com", "/", "?", "n", "o", "=", "1">>,
          <<"https", ":", "/", "/", "m", ".">> \o NaverHost \o <<"/", "?", "n", "o", "=", "2">>,
          NaverHost \o <<"/", "?", "n", "o", "=", "1">>}

\* the Number extractEpisodeFromUrl gave, as an episode of the progress
\* store
EpisodeOf(n) ==
    IF n.kind = "int" THEN n.val ELSE IF n.kind = "big" THEN Big ELSE Infinity

\* the episode handleNavigationStateChange passes on for url, null if none
Detected(url) ==
    IF IsValidWebtoonUrl(url, Webtoon).val
    THEN ExtractEpisodeFromUrl(url, Webtoon).val
    ELSE Null

\* variant: the handler without the scope test
NavEvent_NoScope(url) ==
    LET episode == ExtractEpisodeFromUrl(url, Webtoon).val
    IN  /\ IF episode # Null
           THEN /\ BagCardinality(pcalls) < MaxCalls
                /\ screen' = [currentUrl |-> url, detectedEpisode |-> episode]
                /\ pcalls' = pcalls (+)
                       SetToBag({ProgressCall("update", Webtoon.id, EpisodeOf(episode))})
           ELSE /\ screen' = [screen EXCEPT !.currentUrl = url]
                /\ UNCHANGED pcalls
        /\ UNCHANGED <<now, progressBlob, favBlob, fcalls, req, res,
                       settingsBlob, scalls, hook, provider>>

\* handleNavigationStateChange(navState) of the viewer opened for webtoon,
\* as a whole: setCurrentUrl, the scope test, the extraction and, for a
\* detected episode, setDetectedEpisode and updateWebtoonProgress ->
\* Storage.updateProgress up to its first await.  The promise is dropped.
HandleNavigationStateChange(webtoon, url) ==
    LET episode == ExtractEpisodeFromUrl(url, webtoon).val
    IN  /\ IF ~IsValidWebtoonUrl(url, webtoon).val
           THEN /\ screen' = [screen EXCEPT !.currentUrl = url]
                /\ UNCHANGED pcalls
           ELSE IF episode # Null
           THEN /\ BagCardinality(pcalls) < MaxCalls
                /\ screen' = [currentUrl |-> url, detectedEpisode |-> episode]
                /\ pcalls' = pcalls (+)
                       SetToBag({ProgressCall("update", webtoon.id, EpisodeOf(episode))})
           ELSE /\ screen' = [screen EXCEPT !.currentUrl = url]
                /\ UNCHANGED pcalls
        /\ UNCHANGED <<now, progressBlob, favBlob, fcalls, req, res,
                       settingsBlob, scalls, hook, provider>>

\* a navigation event in the viewer of Webtoon
NavEvent(url) == HandleNavigationStateChange(Webtoon, url)

\* updateWebtoonProgress after `await Storage.updateProgress(...)`: the
\* functional setProgress; it is skipped when the await rejects
UpdateWebtoonProgressResume(c) ==
    /\ c.pc = "done"
    /\ c.op = "update"
    /\ hook' = IF c.threw THEN hook
               ELSE [hook EXCEPT !.progress =
                        Put(@, c.id,
                            ReadingProgress(c.id,
                                Max(c.ep, IF Has(@, c.id) THEN @[c.id].lastEpisode ELSE 0),
                                now))]
    /\ pcalls' = pcalls (-) SetToBag({c})
    /\ UNCHANGED <<now, progressBlob, favBlob, fcalls, hist, req, res,
                   settingsBlob, scalls, provider, screen>>

\* loadProgress (on mount and by refreshProgress) up to its await:
\* setLoading(true), Storage.getAllProgress() suspended in getItem
LoadProgress ==
    /\ BagCardinality(pcalls) < MaxCalls
    /\ hook' = [hook EXCEPT !.loading = TRUE]
    /\ pcalls' = pcalls (+) SetToBag({ProgressCall("getAll", "", 0)})
    /\ UNCHANGED <<now, progressBlob, favBlob, fcalls, req, res,
                   settingsBlob, scalls, provider, screen>>

\* loadProgress after the await: setProgress(data), setLoading(false)
LoadProgressResume(c) ==
    /\ c.pc = "done"
    /\ c.op = "getAll"
    /\ hook' = IF c.threw THEN hook ELSE [progress |-> c.ret, loading |-> FALSE]
    /\ pcalls' = pcalls (-) SetToBag({c})
    /\ UNCHANGED <<now, progressBlob, favBlob, fcalls, hist, req, res,
                   settingsBlob, scalls, provider, screen>>

\* a navigation event; one that leads to an update waits for the calls
\* before it to return
SeqNavEvent(url) ==
    /\ pcalls = EmptyBag \/ Detected(url) = Null
    /\ NavEvent(url)
    /\ hist' = [hist EXCEPT !.nav =
                    [url |-> url,
                     dup |-> Detected(url) # Null /\ hist.nav.url = url,
                     blob |-> progressBlob,
                     cache |-> hook.progress]]

\* handleWebtoonPress(req.webtoon) of HomeScreen: with a record of the item
\* whose lastEpisode is above 0 (getWebtoonProgress; the cache of HomeScreen
\* holds the stored mapping, which it reloads on every focus) the viewer is
\* opened on buildEpisodeUrl(webtoon, lastEpisode), else on the url of the
\* item.  WebViewScreen mounts: useState(webtoon.url), and its useProgress
\* starts loadProgress.
HandleWebtoonPress ==
    LET id == req.webtoon.id
        stored == ParseProgress(progressBlob)
        route == IF Has(stored, id) /\ stored[id].lastEpisode > 0
                 THEN [req.webtoon EXCEPT
                          !.url = BuildEpisodeUrl(req.webtoon, stored[id].lastEpisode)]
                 ELSE req.webtoon
    IN  /\ ~req.opened
        /\ req' = [req EXCEPT !.opened = TRUE, !.route = route]
        /\ screen' = [currentUrl |-> route.url, detectedEpisode |-> Null]
        /\ hook' = [progress |-> EmptyMap, loading |-> TRUE]
        /\ pcalls' = pcalls (+) SetToBag({ProgressCall("getAll", "", 0)})
        /\ UNCHANGED <<now, progressBlob, favBlob, fcalls, hist, res,
                       settingsBlob, scalls, provider>>

\* the embedded browser reports the url the viewer was opened on
OpenedEvent ==
    /\ req.opened
    /\ HandleNavigationStateChange(req.route, req.route.url)
    /\ UNCHANGED hist

\* ---------------------------------------------------- FavoritesProvider
\* variant: the cached list is left alone when the setItem of the toggle
\* was rejected
ToggleFavoriteResume_Rollback(c) ==
    /\ c.pc = "done"
    /\ c.op = "toggle"
    /\ provider' =
          IF c.threw \/ ~c.wok THEN provider
          ELSE IF c.ret
          THEN [provider EXCEPT !.favorites = Append(@, Favorite(c.id, now)),
                                !.favoriteIds = @ \cup {c.id}]
          ELSE [provider EXCEPT !.favorites = Filter(@, c.id),
                                !.favoriteIds = @ \ {c.id}]
    /\ fcalls' = fcalls (-) SetToBag({c})
    /\ UNCHANGED <<now, progressBlob, pcalls, favBlob, hist, req, res,
                   settingsBlob, scalls, hook, screen>>

\* toggleFavorite of the context after `await Storage.toggleFavorite(id)`:
\* wasAdded decides between appending a new record and filtering; skipped
\* when the await rejects
ToggleFavoriteResume(c) ==
    /\ c.pc = "done"
    /\ c.op = "toggle"
    /\ provider' =
          IF c.threw THEN provider
          ELSE IF c.ret
          THEN [provider EXCEPT !.favorites = Append(@, Favorite(c.id, now)),
                                !.favoriteIds = @ \cup {c.id}]
          ELSE [provider EXCEPT !.favorites = Filter(@, c.id),
                                !.favoriteIds = @ \ {c.id}]
    /\ fcalls' = fcalls (-) SetToBag({c})
    /\ UNCHANGED <<now, progressBlob, pcalls, favBlob, hist, req, res,
                   settingsBlob, scalls, hook, screen>>

\* loadFavorites (on mount and by refreshFavorites) up to its await:
\* setLoading(true), Storage.getFavorites() suspended in getItem
LoadFavorites ==
    /\ BagCardinality(fcalls) < MaxCalls
    /\ provider' = [provider EXCEPT !.loading = TRUE]
    /\ fcalls' = fcalls (+) SetToBag({FavoriteCall("getFavorites", "")})
    /\ UNCHANGED <<now, progressBlob, pcalls, favBlob, req, res,
                   settingsBlob, scalls, hook, screen>>

\* loadFavorites after the await: setFavorites, setFavoriteIds, setLoading
LoadFavoritesResume(c) ==
    /\ c.pc = "done"
    /\ c.op = "getFavorites"
    /\ provider' = IF c.threw THEN provider
                   ELSE [favorites |-> c.ret,
                         favoriteIds |-> {c.ret[i].webtoonId : i \in 1..Len(c.ret)},
                         loading |-> FALSE]
    /\ fcalls' = fcalls (-) SetToBag({c})
    /\ UNCHANGED <<now, progressBlob, pcalls, favBlob, hist, req, res,
                   settingsBlob, scalls, hook, screen>>

\* ------------------------------------------------- useFavoritesContext
\* useContext(FavoritesContext): the value of the nearest FavoritesProvider
\* above the caller, and the default of createContext, null, when there is
\* none.  req.mounted tells whether the tree holds a provider.
UseContext ==
    IF req.mounted THEN [none |-> FALSE, value |-> provider]
    ELSE [none |-> TRUE, value |-> Null]

\* variant: the accessor hands the null on
UseFavoritesContext_Null(context) ==
    [done |-> TRUE, threw |-> FALSE, val |-> context.value]

\* useFavoritesContext(): throws when the context is null, returns it
\* otherwise
UseFavoritesContext(context) ==
    IF context.none THEN [done |-> TRUE, threw |-> TRUE, val |-> Null]
    ELSE [done |-> TRUE, threw |-> FALSE, val |-> context.value]

\* a screen (HomeScreen, MyScreen) renders: it calls useFavoritesContext()
\* in its body, outside any try block and with no error boundary above it
Render ==
    /\ res' = UseFavoritesContext(UseContext)
    /\ UNCHANGED <<now, progressBlob, pcalls, favBlob, fcalls, hist, req, appVars>>

\* ------------------------------------------- sequential use of the hooks
\* no storage-service call is in flight
Idle == pcalls = EmptyBag /\ fcalls = EmptyBag /\ scalls = EmptyBag

\* updateWebtoonProgress(id, e) of useProgress; hist keeps the stored entry
\* as the call found it
HookUpdate(id, e) ==
    /\ Idle
    /\ StartUpdate(id, e)
    /\ hist' = [hist EXCEPT !.pBefore = progressBlob]

\* refreshProgress of useProgress
HookRefreshProgress ==
    /\ Idle
    /\ LoadProgress
    /\ UNCHANGED hist

\* toggleFavorite(id) of the context; hist keeps the stored entry as the
\* call found it
HookToggle(id) ==
    /\ Idle
    /\ Len(provider.favorites) < MaxCached
    /\ StartFavorite("toggle", id)
    /\ hist' = [hist EXCEPT !.fcur = [op |-> "toggle", id |-> id, before |-> favBlob]]

\* refreshFavorites of the context
HookRefreshFavorites ==
    /\ Idle
    /\ LoadFavorites
    /\ UNCHANGED hist

\* onPress of the reset button of handleClearData (SettingsScreen) up to its
\* await: clearAllData suspended in multiRemove.  When the call returns the
\* handler shows an alert (SettingsReturn); it calls neither refreshFavorites
\* nor refreshProgress.
HandleClearData ==
    /\ Idle
    /\ StartSettings("clearAllData", EmptyMap)
    /\ UNCHANGED hist

\* ------------------------------------------ the storage service alone
\* one call of the storage service at a time
ServiceCall ==
    /\ Idle
    /\ \/ StartGetAll
       \/ \E id \in Items : StartGet(id)
       \/ \E id \in Items, e \in Episodes : StartUpdate(id, e)
       \/ \E id \in Items : StartClear(id)
       \/ \E op \in {"getFavorites", "isFavorite", "add", "remove", "toggle"}, id \in Items :
             StartFavorite(op, id)
       \/ StartSettings("getSettings", EmptyMap)
       \/ \E settings \in SettingsUpdates : StartSettings("updateSettings", settings)
       \/ StartSettings("clearAllData", EmptyMap)
    /\ UNCHANGED hist

\* ------------------------------------------------------- specifications
Init ==
    /\ now = 0
    /\ progressBlob = AbsentProgress
    /\ pcalls = EmptyBag
    /\ favBlob = AbsentFavorites
    /\ fcalls = EmptyBag
    /\ hist = NoHist
    /\ req = NoCall
    /\ res = Pending
    /\ InitApp

\* The progress store used one call at a time, every storage call succeeding.
NextProgressSeq ==
    \/ Tick
    \/ \E id \in Items, e \in Episodes : SeqUpdate(id, e)
    \/ \E id \in Items : SeqClear(id)
    \/ \E c \in BagToSet(pcalls) : ProgressGetItemOk(c)
    \/ \E c \in BagToSet(pcalls) : ProgressSetItemOk(c)
    \/ \E c \in BagToSet(pcalls) : ProgressReturn(c)

SpecProgressSeq == Init /\ [][NextProgressSeq]_vars

\* Progress updates as the viewer screen fires them: any number of them
\* suspended at once, every storage call succeeding.
NextNav ==
    \/ Tick
    \/ \E id \in Items, e \in Episodes : NavUpdate(id, e)
    \/ \E c \in BagToSet(pcalls) : ProgressGetItemOk(c)
    \/ \E c \in BagToSet(pcalls) : ProgressSetItemOk(c)
    \/ \E c \in BagToSet(pcalls) : ProgressReturn(c)

SpecNav == Init /\ [][NextNav]_vars

\* The favorites store used one call at a time, every storage call succeeding.
NextFavSeq ==
    \/ Tick
    \/ \E op \in {"toggle", "add", "remove"}, id \in Items : SeqFavorite(op, id)
    \/ \E c \in BagToSet(fcalls) : FavGetItemOk(c)
    \/ \E c \in BagToSet(fcalls) : FavSetItemOk(c)
    \/ \E c \in BagToSet(fcalls) : FavReturn(c)

SpecFavSeq == Init /\ [][NextFavSeq]_vars

\* The favorites store with every interleaving of its calls and every
\* outcome of the storage calls.
NextFav ==
    \/ Tick
    \/ \E id \in Items : PressFavorite(id)
    \/ \E id \in Items : AddFavorite(id)
    \/ \E id \in Items : RemoveFavorite(id)
    \/ \E c \in BagToSet(fcalls) : FavGetItemOk(c)
    \/ \E c \in BagToSet(fcalls) : FavGetItemFail(c)
    \/ \E c \in BagToSet(fcalls) : FavSetItemOk(c)
    \/ \E c \in BagToSet(fcalls) : FavSetItemFail(c)
    \/ \E c \in BagToSet(fcalls) : FavReturn(c)

SpecFav == Init /\ [][NextFav]_vars

\* extractEpisodeFromUrl applied to one input
InitParse ==
    /\ now = 0
    /\ progressBlob = AbsentProgress
    /\ pcalls = EmptyBag
    /\ favBlob = AbsentFavorites
    /\ fcalls = EmptyBag
    /\ hist = NoHist
    /\ req \in ParseInputs
    /\ res = Pending
    /\ InitApp

NextParse == Extract

SpecParse == InitParse /\ [][NextParse]_vars

\* isValidWebtoonUrl applied to one input
InitScope ==
    /\ now = 0
    /\ progressBlob = AbsentProgress
    /\ pcalls = EmptyBag
    /\ favBlob = AbsentFavorites
    /\ fcalls = EmptyBag
    /\ hist = NoHist
    /\ req \in ScopeInputs
    /\ res = Pending
    /\ InitApp

NextScope == Validate

SpecScope == InitScope /\ [][NextScope]_vars

\* buildEpisodeUrl applied to one input
InitBuild ==
    /\ now = 0
    /\ progressBlob = AbsentProgress
    /\ pcalls = EmptyBag
    /\ favBlob = AbsentFavorites
    /\ fcalls = EmptyBag
    /\ hist = NoHist
    /\ req \in BuildInputs
    /\ res = Pending
    /\ InitApp

NextBuild == Build

SpecBuild == InitBuild /\ [][NextBuild]_vars

\* The viewer screen: useProgress loads on mount, then navigation events
\* arrive, each update returning before the next one starts; every storage
\* call succeeds.
InitViewer ==
    /\ now = 0
    /\ progressBlob = AbsentProgress
    /\ pcalls = SetToBag({ProgressCall("getAll", "", 0)})
    /\ favBlob = AbsentFavorites
    /\ fcalls = EmptyBag
    /\ hist = NoHist
    /\ req = NoCall
    /\ res = Pending
    /\ InitApp

NextViewer ==
    \/ Tick
    \/ \E url \in NavUrls : SeqNavEvent(url)
    \/ \E c \in BagToSet(pcalls) : ProgressGetItemOk(c)
    \/ \E c \in BagToSet(pcalls) : ProgressSetItemOk(c)
    \/ \E c \in BagToSet(pcalls) : UpdateWebtoonProgressResume(c)
    \/ \E c \in BagToSet(pcalls) : LoadProgressResume(c)

SpecViewer == InitViewer /\ [][NextViewer]_vars

\* useProgress and FavoritesProvider: both load on mount, then updates,
\* toggles and refreshes for the viewed item run one at a time, with every
\* outcome of the storage calls.
InitHooks ==
    /\ now = 0
    /\ progressBlob = AbsentProgress
    /\ pcalls = SetToBag({ProgressCall("getAll", "", 0)})
    /\ favBlob = AbsentFavorites
    /\ fcalls = SetToBag({FavoriteCall("getFavorites", "")})
    /\ hist = NoHist
    /\ req = NoCall
    /\ res = Pending
    /\ InitApp

NextHooks ==
    \/ Tick
    \/ \E e \in Episodes : HookUpdate(Webtoon.id, e)
    \/ HookRefreshProgress
    \/ HookToggle(Webtoon.id)
    \/ HookRefreshFavorites
    \/ \E c \in BagToSet(pcalls) : ProgressGetItemOk(c)
    \/ \E c \in BagToSet(pcalls) : ProgressGetItemFail(c)
    \/ \E c \in BagToSet(pcalls) : ProgressSetItemOk(c)
    \/ \E c \in BagToSet(pcalls) : ProgressSetItemFail(c)
    \/ \E c \in BagToSet(pcalls) : UpdateWebtoonProgressResume(c)
    \/ \E c \in BagToSet(pcalls) : LoadProgressResume(c)
    \/ \E c \in BagToSet(fcalls) : FavGetItemOk(c)
    \/ \E c \in BagToSet(fcalls) : FavGetItemFail(c)
    \/ \E c \in BagToSet(fcalls) : FavSetItemOk(c)
    \/ \E c \in BagToSet(fcalls) : FavSetItemFail(c)
    \/ \E c \in BagToSet(fcalls) : ToggleFavoriteResume(c)
    \/ \E c \in BagToSet(fcalls) : LoadFavoritesResume(c)

SpecHooks == InitHooks /\ [][NextHooks]_vars

\* Every operation of the storage service, one call at a time, with every
\* outcome of getItem, setItem and multiRemove, over entries that are
\* absent or hold text that is not JSON at the start.
InitStorage ==
    /\ now = 0
    /\ progressBlob \in {AbsentProgress, Unparsable}
    /\ pcalls = EmptyBag
    /\ favBlob \in {AbsentFavorites, Unparsable}
    /\ fcalls = EmptyBag
    /\ hist = NoHist
    /\ req = NoCall
    /\ res = Pending
    /\ settingsBlob \in {AbsentSettings, Unparsable}
    /\ scalls = EmptyBag
    /\ hook = [progress |-> EmptyMap, loading |-> TRUE]
    /\ provider = [favorites |-> <<>>, favoriteIds |-> {}, loading |-> TRUE]
    /\ screen = [currentUrl |-> Webtoon.url, detectedEpisode |-> Null]

NextStorage ==
    \/ Tick
    \/ ServiceCall
    \/ \E c \in BagToSet(pcalls) : ProgressGetItemOk(c)
    \/ \E c \in BagToSet(pcalls) : ProgressGetItemFail(c)
    \/ \E c \in BagToSet(pcalls) : ProgressSetItemOk(c)
    \/ \E c \in BagToSet(pcalls) : ProgressSetItemFail(c)
    \/ \E c \in BagToSet(pcalls) : ProgressReturn(c)
    \/ \E c \in BagToSet(fcalls) : FavGetItemOk(c)
    \/ \E c \in BagToSet(fcalls) : FavGetItemFail(c)
    \/ \E c \in BagToSet(fcalls) : FavSetItemOk(c)
    \/ \E c \in BagToSet(fcalls) : FavSetItemFail(c)
    \/ \E c \in BagToSet(fcalls) : FavReturn(c)
    \/ \E c \in BagToSet(scalls) : SettingsGetItemOk(c)
    \/ \E c \in BagToSet(scalls) : SettingsGetItemFail(c)
    \/ \E c \in BagToSet(scalls) : SettingsSetItemOk(c)
    \/ \E c \in BagToSet(scalls) : SettingsSetItemFail(c)
    \/ \E c \in BagToSet(scalls) : MultiRemoveOk(c)
    \/ \E c \in BagToSet(scalls) : MultiRemoveFail(c)
    \/ \E c \in BagToSet(scalls) : SettingsReturn(c)

SpecStorage == InitStorage /\ [][NextStorage]_vars

\* The screens that read the favorites context, in a tree with and in a
\* tree without a FavoritesProvider.  A mounted provider loads on mount and
\* serves toggles and refreshes, with every outcome of the storage calls.
InitContext ==
    /\ now = 0
    /\ progressBlob = AbsentProgress
    /\ pcalls = EmptyBag
    /\ favBlob = AbsentFavorites
    /\ req \in {[mounted |-> m] : m \in BOOLEAN}
    /\ fcalls = IF req.mounted THEN SetToBag({FavoriteCall("getFavorites", "")})
                ELSE EmptyBag
    /\ hist = NoHist
    /\ res = Pending
    /\ InitApp

NextContext ==
    \/ Tick
    \/ Render
    \/ req.mounted /\ \E id \in Items : HookToggle(id)
    \/ req.mounted /\ HookRefreshFavorites
    \/ \E c \in BagToSet(fcalls) : FavGetItemOk(c)
    \/ \E c \in BagToSet(fcalls) : FavGetItemFail(c)
    \/ \E c \in BagToSet(fcalls) : FavSetItemOk(c)
    \/ \E c \in BagToSet(fcalls) : FavSetItemFail(c)
    \/ \E c \in BagToSet(fcalls) : ToggleFavoriteResume(c)
    \/ \E c \in BagToSet(fcalls) : LoadFavoritesResume(c)

SpecContext == InitContext /\ [][NextContext]_vars

\* FavoritesProvider and the reset of the settings screen: the provider
\* loads on mount, then toggles, refreshes and resets run one at a time,
\* every storage call succeeding.
InitReset ==
    /\ now = 0
    /\ progressBlob = AbsentProgress
    /\ pcalls = EmptyBag
    /\ favBlob = AbsentFavorites
    /\ fcalls = SetToBag({FavoriteCall("getFavorites", "")})
    /\ hist = NoHist
    /\ req = NoCall
    /\ res = Pending
    /\ InitApp

NextReset ==
    \/ Tick
    \/ \E id \in Items : HookToggle(id)
    \/ HookRefreshFavorites
    \/ HandleClearData
    \/ \E c \in BagToSet(fcalls) : FavGetItemOk(c)
    \/ \E c \in BagToSet(fcalls) : FavSetItemOk(c)
    \/ \E c \in BagToSet(fcalls) : ToggleFavoriteResume(c)
    \/ \E c \in BagToSet(fcalls) : LoadFavoritesResume(c)
    \/ \E c \in BagToSet(scalls) : MultiRemoveOk(c)
    \/ \E c \in BagToSet(scalls) : SettingsReturn(c)

SpecReset == InitReset /\ [][NextReset]_vars

\* The refreshes of useProgress and FavoritesProvider: both load on mount,
\* then refreshProgress and refreshFavorites are called at any time (on
\* focus, on pull-to-refresh), also while earlier loads are suspended; the
\* getItem of a load resolves or rejects.
NextRefresh ==
    \/ LoadProgress /\ UNCHANGED hist
    \/ LoadFavorites /\ UNCHANGED hist
    \/ \E c \in BagToSet(pcalls) : ProgressGetItemOk(c)
    \/ \E c \in BagToSet(pcalls) : ProgressGetItemFail(c)
    \/ \E c \in BagToSet(pcalls) : LoadProgressResume(c)
    \/ \E c \in BagToSet(fcalls) : FavGetItemOk(c)
    \/ \E c \in BagToSet(fcalls) : FavGetItemFail(c)
    \/ \E c \in BagToSet(fcalls) : LoadFavoritesResume(c)

\* AsyncStorage settles every getItem, one way or the other, and the
\* JavaScript runtime resumes every function whose await has settled.
FairRefresh ==
    /\ WF_vars(\E c \in BagToSet(pcalls) : ProgressGetItemOk(c) \/ ProgressGetItemFail(c))
    /\ WF_vars(\E c \in BagToSet(pcalls) : LoadProgressResume(c))
    /\ WF_vars(\E c \in BagToSet(fcalls) : FavGetItemOk(c) \/ FavGetItemFail(c))
    /\ WF_vars(\E c \in BagToSet(fcalls) : LoadFavoritesResume(c))

SpecRefresh == InitHooks /\ [][NextRefresh]_vars /\ FairRefresh

\* Resuming an item: storage holds a record of a catalog item, HomeScreen
\* opens the viewer for it, and the browser reports the url it was opened
\* on; every storage call succeeds.
MaxResume == 20

ResumeEpisodes == (1..MaxResume) \cup {123, Big}

InitResume ==
    /\ now = 0
    /\ req \in {[webtoon |-> DUMMY_WEBTOONS[i], episode |-> e,
                  opened |-> FALSE, route |-> DUMMY_WEBTOONS[i]] :
                    i \in 1..Len(DUMMY_WEBTOONS), e \in ResumeEpisodes}
    /\ progressBlob = Stringify(ProgressJson(
            Put(EmptyMap, req.webtoon.id,
                ReadingProgress(req.webtoon.id, req.episode, now))))
    /\ pcalls = EmptyBag
    /\ favBlob = AbsentFavorites
    /\ fcalls = EmptyBag
    /\ hist = NoHist
    /\ res = Pending
    /\ InitApp

NextResume ==
    \/ HandleWebtoonPress
    \/ OpenedEvent
    \/ \E c \in BagToSet(pcalls) : ProgressGetItemOk(c)
    \/ \E c \in BagToSet(pcalls) : UpdateWebtoonProgressResume(c)
    \/ \E c \in BagToSet(pcalls) : LoadProgressResume(c)

SpecResume == InitResume /\ [][NextResume]_vars

\* The settings store used one call at a time, every storage call
\* succeeding.  The entry is absent at first, or holds a record an earlier
\* run stored: a whole one, or one with a single field (a record written
\* before the other field existed).
StoredSettings ==
    {[theme |-> t, notifications |-> n] : t \in {"light", "dark"}, n \in BOOLEAN}
    \cup {[theme |-> t] : t \in {"light", "dark"}}
    \cup {[notifications |-> n] : n \in BOOLEAN}

InitSettings ==
    /\ now = 0
    /\ progressBlob = AbsentProgress
    /\ pcalls = EmptyBag
    /\ favBlob = AbsentFavorites
    /\ fcalls = EmptyBag
    /\ hist = NoHist
    /\ req = NoCall
    /\ res = Pending
    /\ settingsBlob \in {AbsentSettings} \cup {Stringify(x) : x \in StoredSettings}
    /\ scalls = EmptyBag
    /\ hook = [progress |-> EmptyMap, loading |-> TRUE]
    /\ provider = [favorites |-> <<>>, favoriteIds |-> {}, loading |-> TRUE]
    /\ screen = [currentUrl |-> Webtoon.url, detectedEpisode |-> Null]

NextSettingsSeq ==
    \/ SeqSettings("getSettings", EmptyMap)
    \/ \E settings \in SettingsUpdates : SeqSettings("updateSettings", settings)
    \/ \E c \in BagToSet(scalls) : SettingsGetItemOk(c)
    \/ \E c \in BagToSet(scalls) : SettingsSetItemOk(c)
    \/ \E c \in BagToSet(scalls) : SettingsReturn(c)

SpecSettingsSeq == InitSettings /\ [][NextSettingsSeq]_vars

\* ------------------------------------------------------------- properties
Stored == ParseProgress(progressBlob)
Favs == ParseFavorites(favBlob)
Before == ParseProgress(hist.pBefore)

DoneP == {c \in BagToSet(pcalls) : c.pc = "done"}
DoneF == {c \in BagToSet(fcalls) : c.pc = "done"}

\* the ids of a favorites list
Ids(favorites) == {favorites[i].webtoonId : i \in 1..Len(favorites)}

\* C1: after updateProgress calls for an item that ran one after the other
\* (every storage call succeeding, no clearProgress since), the stored
\* lastEpisode of the item is the highest episode that was passed.
C1_StoredIsMax ==
    InFlight(pcalls) = EmptyBag =>
        \A id \in Items : hist.maxEp[id] > 0 =>
            Has(Stored, id) /\ Stored[id].lastEpisode = hist.maxEp[id]

\* an update with a lower episode than an earlier one has returned
C1_Witness ==
    \E c \in DoneP : c.op = "update" /\ c.ep < hist.maxEp[c.id]

\* C2: in every interleaving of the updates fired by navigation events, the
\* stored lastEpisode of an item never decreases from one stored state to
\* the next.
C2_NeverDecreases ==
    [][\A id \in Items :
          Has(Stored, id) /\ Has(Stored', id)
              => Stored'[id].lastEpisode >= Stored[id].lastEpisode]_vars

\* C3: at no time are two read-modify-write operations on the progress key
\* suspended at once.
C3_OneInFlight == BagCardinality(InFlight(pcalls)) <= 1

\* C4: updateProgress(id, e) that finds a record of id with lastEpisode >= e
\* issues no setItem and leaves the stored entry as it was.
C4_LowerIsNoOp ==
    \A c \in DoneP :
        (c.op = "update" /\ Has(Before, c.id) /\ c.ep <= Before[c.id].lastEpisode)
            => ~c.wrote /\ progressBlob = hist.pBefore

\* an update with an episode equal to the stored one has returned
C4_Witness ==
    \E c \in DoneP :
        c.op = "update" /\ Has(Before, c.id) /\ c.ep = Before[c.id].lastEpisode

\* C5: updateProgress(id, e) that finds no record of id, or one with a lower
\* lastEpisode, stores {webtoonId: id, lastEpisode: e, lastReadAt: a time
\* of the call} under id and leaves the other records as they were.
C5_HigherReplaces ==
    \A c \in DoneP :
        (c.op = "update" /\ (~Has(Before, c.id) \/ c.ep > Before[c.id].lastEpisode))
            => /\ c.wrote
               /\ Has(Stored, c.id)
               /\ Stored = Put(Before, c.id, Stored[c.id])
               /\ Stored[c.id].webtoonId = c.id
               /\ Stored[c.id].lastEpisode = c.ep
               /\ Stored[c.id].lastReadAt \in hist.t0..now

\* an update has raised an existing record and given it a new lastReadAt
\* while the record of the other item stayed
C5_Witness ==
    \E c \in DoneP :
        /\ c.op = "update"
        /\ Has(Before, c.id)
        /\ c.ep > Before[c.id].lastEpisode
        /\ Stored[c.id].lastReadAt # Before[c.id].lastReadAt
        /\ DOMAIN Stored = Items

\* the two last calls were toggleFavorite of the same id, the second has
\* returned
TwoToggles(c) ==
    /\ c.op = "toggle"
    /\ hist.fcur.op = "toggle"
    /\ hist.fprev.op = "toggle"
    /\ hist.fprev.id = c.id

Original == ParseFavorites(hist.fprev.before)

\* C6 as stated: toggleFavorite(id) twice returns the original membership
\* and leaves the stored list equal to the original one, addedAt included.
C6_TwiceRestoresList ==
    \A c \in DoneF :
        TwoToggles(c) => c.ret = Some(Original, c.id) /\ Favs = Original

\* C6 amended: toggleFavorite(id) twice returns the original membership and
\* leaves the same set of ids and the records of the other ids as they were;
\* the list is the original one when id was not a favorite at first.
C6_TwiceRestoresIds ==
    \A c \in DoneF :
        TwoToggles(c) =>
            /\ c.ret = Some(Original, c.id)
            /\ Ids(Favs) = Ids(Original)
            /\ Filter(Favs, c.id) = Filter(Original, c.id)
            /\ ~Some(Original, c.id) => Favs = Original

\* a favorite was toggled off and on again, next to another favorite
C6_Witness ==
    \E c \in DoneF :
        /\ TwoToggles(c)
        /\ Some(Original, c.id)
        /\ Len(Original) = 2
        /\ Favs # Original

C8_AddRemoveIdempotent ==
    \A c \in DoneF :
        /\ (c.op = "add" /\ Some(ParseFavorites(hist.fcur.before), c.id))
              => ~c.wrote /\ favBlob = hist.fcur.before
        /\ (c.op = "remove" /\ ~Some(ParseFavorites(hist.fcur.before), c.id))
              => Favs = ParseFavorites(hist.fcur.before)

\* addFavorite has returned for an id that was added at an earlier time
C8_Witness ==
    \E c \in DoneF :
        /\ c.op = "add"
        /\ Some(ParseFavorites(hist.fcur.before), c.id)
        /\ \E i \in 1..Len(Favs) : Favs[i].webtoonId = c.id /\ Favs[i].addedAt < now

\* C9: the stored favorites list holds at most one record per id.
C9_OneRecordPerId ==
    \A i, j \in 1..Len(Favs) : Favs[i].webtoonId = Favs[j].webtoonId => i = j

\* two calls that both added the same id have written their lists
C9_Witness ==
    \E c \in DoneF :
        /\ c.inner = "add"
        /\ c.wrote
        /\ CopiesIn(c, fcalls) = 2
        /\ Some(Favs, c.id)

\* C10: extractEpisodeFromUrl yields null or an integer greater than 0, and
\* no exception leaves it, whatever the url and the pattern are.
C10_NullOrPositiveInteger ==
    res.done =>
        /\ ~res.threw
        /\ res.val = Null \/ (IsInteger(res.val) /\ Positive(res.val))

\* url.match(regex) for the call of req, and whether it has a capture
\* group 1 (the pattern compiles, matches, and holds a group)
Captured == Match(req.url, Compile(req.webtoon.episodePattern))

HasCapture ==
    Compile(req.webtoon.episodePattern).ok /\ Captured.found /\ Captured.defined

AllDigits(text) == \A i \in 1..Len(text) : text[i] \in Digits

\* text is a base-10 integer: an optional sign, then digits and nothing else
ValidInteger(text) ==
    LET body == IF Len(text) >= 1 /\ text[1] = "-" THEN Tail(text) ELSE text
    IN  body # <<>> /\ AllDigits(body)

\* C11: when capture group 1 is not a base-10 integer (digits followed by
\* letters, text without digits) or is "0", extractEpisodeFromUrl yields
\* null.
C11_InvalidCaptureIsNull ==
    (res.done /\ HasCapture
        /\ (~ValidInteger(Captured.text) \/ Captured.text = <<"0">>))
        => res.val = Null

\* the Number num is the integer the digit run ds denotes: the integer
\* itself up to nine significant digits, a finite Number beyond that
Denotes(num, ds) ==
    LET sig == SubSeq(ds, RunLen(ds, 1, {"0"}) + 1, Len(ds))
    IN  IF Len(sig) <= 9 THEN num = [kind |-> "int", val |-> DecimalValue(sig)]
        ELSE num.kind = "big"

\* C12: when the pattern matches and capture group 1 of the leftmost match
\* is a run of decimal digits denoting n > 0, extractEpisodeFromUrl yields
\* exactly n.
C12_DigitsGiveTheirValue ==
    (res.done /\ HasCapture /\ Captured.text # <<>> /\ AllDigits(Captured.text)
        /\ \E i \in 1..Len(Captured.text) : Captured.text[i] # "0")
        => Denotes(res.val, Captured.text)

\* C13: isValidWebtoonUrl is true only if both urls parse and their hosts
\* are equal; it is false when the hosts differ and when one of the two
\* does not parse.  No exception leaves it.
C13_TrueOnlyForEqualHosts ==
    res.done =>
        /\ ~res.threw
        /\ res.val = TRUE =>
              /\ ParseURL(req.url).ok
              /\ ParseURL(req.webtoon.url).ok
              /\ ParseURL(req.url).hostname = ParseURL(req.webtoon.url).hostname
        /\ (ParseURL(req.url).ok /\ ParseURL(req.webtoon.url).ok
              /\ ParseURL(req.url).hostname # ParseURL(req.webtoon.url).hostname)
              => res.val = FALSE
        /\ (~ParseURL(req.url).ok \/ ~ParseURL(req.webtoon.url).ok) => res.val = FALSE

\* a url on a subdomain of the host of the item was refused
C13_Witness ==
    /\ res.done
    /\ res.val = FALSE
    /\ ParseURL(req.url).ok
    /\ ParseURL(req.webtoon.url).ok
    /\ ParseURL(req.url).hostname = <<"m", ".">> \o ParseURL(req.webtoon.url).hostname

\* the names a pattern text offers for a shape: the runs of word characters
\* that cannot be extended to the left and that the shape follows
Names(text, shape) ==
    {SubSeq(text, i, i + RunLen(text, i, WordChars) - 1) :
        i \in {k \in 1..Len(text) :
                  /\ text[k] \in WordChars
                  /\ k = 1 \/ text[k - 1] \notin WordChars
                  /\ LiteralAt(text, k + RunLen(text, k, WordChars), shape)}}

\* C14: buildEpisodeUrl yields url, '&' or '?' (as url holds a '?' or not),
\* name=episode when the pattern holds name=(\d+); else url/name/episode when
\* it holds name/(\d+); else url.
C14_BuildsByShape ==
    res.done =>
        LET text == SourceText(req.webtoon.episodePattern)
            url == req.webtoon.url
            e == NumberToString(req.episode)
        IN  IF Names(text, QueryShape) # {}
            THEN \E name \in Names(text, QueryShape) :
                    res.val = url \o (IF \E i \in 1..Len(url) : url[i] = "?"
                                      THEN <<"&">> ELSE <<"?">>)
                                  \o name \o <<"=">> \o e
            ELSE IF Names(text, PathShape) # {}
            THEN \E name \in Names(text, PathShape) :
                    res.val = url \o <<"/">> \o name \o <<"/">> \o e
            ELSE res.val = url

\* a pattern with both shapes, the path shape first, was applied to a url
\* with a query and an episode of more than one digit
C14_Witness ==
    /\ res.done
    /\ Names(SourceText(req.webtoon.episodePattern), QueryShape) # {}
    /\ Names(SourceText(req.webtoon.episodePattern), PathShape) # {}
    /\ SourceText(req.webtoon.episodePattern)[3] = "/"
    /\ Includes(req.webtoon.url, "?")
    /\ req.episode >= 10
    /\ res.val # req.webtoon.url

\* C15: a navigation event whose url is out of scope, or in scope without
\* an episode, starts no update and leaves the stored progress and the
\* cached progress as they are.
C15_NoUpdateWithoutEpisode ==
    [][(screen' # screen /\ Detected(screen'.currentUrl) = Null)
          => /\ pcalls' = pcalls
             /\ progressBlob' = progressBlob
             /\ hook'.progress = hook.progress]_vars

\* the browser is on another host, at a url that holds an episode number,
\* while a record of the item is stored and cached
C15_Witness ==
    /\ ParseURL(screen.currentUrl).ok
    /\ ~IsValidWebtoonUrl(screen.currentUrl, Webtoon).val
    /\ ExtractEpisodeFromUrl(screen.currentUrl, Webtoon).val # Null
    /\ Has(Stored, Webtoon.id)
    /\ Has(hook.progress, Webtoon.id)

\* C16: when the same in-scope url with an episode is handled twice in a
\* row, the second event leaves the stored progress and the cached progress,
\* lastReadAt included, as they were after the first.
C16_DuplicateEventIsNoOp ==
    (hist.nav.dup /\ pcalls = EmptyBag)
        => /\ progressBlob = hist.nav.blob
           /\ hook.progress = hist.nav.cache

\* C17: while the setItem of a progress update is not yet confirmed, the
\* cached progress already holds the episode being written.
C17_CachedBeforeWritten ==
    \A c \in BagToSet(pcalls) :
        (c.op = "update" /\ c.pc = "write")
            => /\ Has(hook.progress, c.id)
               /\ hook.progress[c.id].lastEpisode >= c.ep

\* C18: when the setItem of a progress update or of a favorite toggle is
\* rejected, the hook still puts the attempted value in its cache when the
\* call returns, and the stored entry is the one from before the call.
C18_FailedWriteStillCached ==
    [][/\ \A c \in BagToSet(pcalls) :
             (c.op = "update" /\ c.pc = "done" /\ ~c.wok
                 /\ pcalls' = pcalls (-) SetToBag({c}))
                 => /\ Has(hook'.progress, c.id)
                    /\ hook'.progress[c.id].lastEpisode >= c.ep
                    /\ hook'.progress[c.id].lastReadAt = now
                    /\ progressBlob' = hist.pBefore
       /\ \A c \in BagToSet(fcalls) :
             (c.op = "toggle" /\ c.pc = "done" /\ ~c.wok
                 /\ fcalls' = fcalls (-) SetToBag({c}))
                 => /\ (c.id \in provider'.favoriteIds) = c.ret
                    /\ Some(provider'.favorites, c.id) = c.ret
                    /\ favBlob' = hist.fcur.before]_vars

\* after failed writes and no refresh since, the cache holds a record and a
\* favorite that storage does not hold
C18_Witness ==
    /\ Idle
    /\ Has(hook.progress, Webtoon.id)
    /\ ~Has(Stored, Webtoon.id)
    /\ Webtoon.id \in provider.favoriteIds
    /\ ~Some(Favs, Webtoon.id)

\* C20: when the read of a refreshProgress fails, the cached progress is
\* left as it was.
C20_FailedRefreshKeepsCache ==
    [][\A c \in BagToSet(pcalls) :
          (c.op = "getAll" /\ c.pc = "done" /\ ~c.rok
              /\ pcalls' = pcalls (-) SetToBag({c}))
              => hook'.progress = hook.progress]_vars

DoneS == {c \in BagToSet(scalls) : c.pc = "done"}

\* C19: no call of the storage service rejects, whatever getItem, setItem
\* and multiRemove do and whatever text the entries hold; a reader whose
\* read failed returns {}, null, [], false or DEFAULT_SETTINGS.
C19_NeverThrows ==
    /\ \A c \in DoneP :
          /\ ~c.threw
          /\ (~c.rok /\ c.op = "getAll") => c.ret = EmptyMap
          /\ (~c.rok /\ c.op = "get") => c.ret = Null
    /\ \A c \in DoneF :
          /\ ~c.threw
          /\ (~c.rok /\ c.op = "getFavorites") => c.ret = <<>>
          /\ (~c.rok /\ c.op = "isFavorite") => c.ret = FALSE
    /\ \A c \in DoneS :
          /\ ~c.threw
          /\ (~c.rok /\ c.op = "getSettings") => c.ret = DEFAULT_SETTINGS

\* toggleFavorite has returned after its reads found text that is not JSON
\* and its setItem was rejected
C19_Witness ==
    /\ favBlob = Unparsable
    /\ \E c \in DoneF : c.op = "toggle" /\ c.wrote /\ ~c.wok

\* C21: a stored progress record stays stored, with a lastEpisode that does
\* not decrease, through every step of the storage service (failed reads
\* and writes of calls for another item included) while no clearProgress of
\* its item and no clearAllData is running.
C21_RecordStaysUntilCleared ==
    [][\A id \in Items :
          (/\ Has(Stored, id)
           /\ ~\E c \in BagToSet(pcalls) : c.op = "clear" /\ c.id = id
           /\ ~\E c \in BagToSet(scalls) : c.op = "clearAllData")
              => /\ Has(Stored', id)
                 /\ Stored'[id].lastEpisode >= Stored[id].lastEpisode]_vars

\* C22: once the multiRemove of clearAllData has resolved, getAllProgress
\* gives {}, getFavorites gives [] and getSettings gives DEFAULT_SETTINGS,
\* whatever the three entries held.
C22_ClearAllResets ==
    \A c \in DoneS :
        (c.op = "clearAllData" /\ c.wok)
            => /\ GetAllProgress(Resolved(progressBlob)).val = EmptyMap
               /\ GetFavorites(Resolved(favBlob)).val = <<>>
               /\ GetSettings(Resolved(settingsBlob)).val = DEFAULT_SETTINGS

\* clearAllData has returned after it found progress, favorites and
\* settings stored
C22_Witness ==
    \E c \in DoneS : c.op = "clearAllData" /\ c.wok /\ c.found

\* the fields of the settings record
SettingsFields == {"theme", "notifications"}

\* the settings an entry holds, and the entry as the running call found it
Settings == IF settingsBlob.has THEN settingsBlob.val ELSE EmptyMap
SettingsBefore == IF hist.sBefore.has THEN hist.sBefore.val ELSE EmptyMap

\* C23: getSettings returns every stored field as stored and every missing
\* field with its default, and issues no setItem; after updateSettings(s)
\* the stored record holds the fields of s as given and every other field
\* that was stored as it was stored.
C23_BackfillAndMerge ==
    /\ \A c \in BagToSet(scalls) :
          c.op = "getSettings" => c.pc # "write" /\ settingsBlob = hist.sBefore
    /\ \A c \in DoneS :
          /\ c.op = "getSettings" =>
                /\ DOMAIN c.ret = SettingsFields
                /\ \A k \in SettingsFields :
                      c.ret[k] = IF k \in DOMAIN SettingsBefore
                                 THEN SettingsBefore[k] ELSE DEFAULT_SETTINGS[k]
          /\ c.op = "updateSettings" =>
                \A k \in SettingsFields :
                    /\ k \in DOMAIN c.settings =>
                          k \in DOMAIN Settings /\ Settings[k] = c.settings[k]
                    /\ (k \notin DOMAIN c.settings /\ k \in DOMAIN SettingsBefore) =>
                          k \in DOMAIN Settings /\ Settings[k] = SettingsBefore[k]
                    /\ (k \notin DOMAIN c.settings /\ k \notin DOMAIN SettingsBefore) =>
                          (k \in DOMAIN Settings => Settings[k] = DEFAULT_SETTINGS[k])

\* updateSettings({notifications: false}) has returned for a stored record
\* that held the theme dark and no notifications field
C23_Witness ==
    \E c \in DoneS :
        /\ c.op = "updateSettings"
        /\ c.settings = [notifications |-> FALSE]
        /\ SettingsBefore = [theme |-> "dark"]
        /\ Settings = [theme |-> "dark", notifications |-> FALSE]

\* C24: useFavoritesContext() called in a tree without a FavoritesProvider
\* throws; called under a provider it returns the value of that provider.
C24_ThrowsWithoutProvider ==
    [][res' # res =>
          /\ res'.done
          /\ IF req.mounted
             THEN ~res'.threw /\ res'.val = provider'
             ELSE res'.threw]_vars

\* a screen has rendered in a tree without a provider
C24_Witness == res.done /\ ~req.mounted /\ res.threw

\* C25: whenever no call of the storage service is in flight (and no
\* storage call has failed), the ids the cache of FavoritesProvider reports
\* as favorite are the ids of the stored favorites list, after a reset
\* through clearAllData as well.
C25_CacheIsStoredIds ==
    Idle => /\ provider.favoriteIds = Ids(Favs)
            /\ Ids(provider.favorites) = Ids(Favs)

\* C28: the cached favorites list of FavoritesProvider holds at most one
\* record per id, whatever toggles, refreshes and resets have run.
C28_CachedOneRecordPerId ==
    \A i, j \in 1..Len(provider.favorites) :
        provider.favorites[i].webtoonId = provider.favorites[j].webtoonId => i = j

\* C26: every progress record stored through navigation events has a
\* lastEpisode of at least 1 and a webtoonId equal to the key it is stored
\* under.
C26_StoredRecordsWellFormed ==
    \A id \in DOMAIN Stored :
        Stored[id].lastEpisode >= 1 /\ Stored[id].webtoonId = id

\* C27: in every interleaving of progress calls, the setItem of a call for
\* item a leaves the stored record of every other item b as it was: neither
\* lost, nor brought back, nor changed.
C27_WriteTouchesOneItem ==
    [][\A c \in BagToSet(pcalls) :
          (/\ c.pc = "write"
           /\ pcalls' = Replace(pcalls, c, [c EXCEPT !.pc = "done", !.blob = EmptyMap]))
              => \A b \in Items \ {c.id} :
                    /\ Has(Stored', b) = Has(Stored, b)
                    /\ Has(Stored, b) => Stored'[b] = Stored[b]]_vars

\* C29: once loadProgress or loadFavorites has set loading, loading becomes
\* false again, whether the getItem of the load resolves or rejects.
C29_LoadingEnds ==
    /\ hook.loading ~> ~hook.loading
    /\ provider.loading ~> ~provider.loading

\* the favorites have loaded, and a load of the progress whose getItem was
\* rejected has not yet resumed: loading is still set
C29_Witness ==
    /\ hook.loading
    /\ ~provider.loading
    /\ BagCardinality(pcalls) = 1
    /\ \E c \in DoneP : c.op = "getAll" /\ ~c.rok

\* C30: for every item of the catalog and every episode e >= 1, the url
\* buildEpisodeUrl(item, e) the viewer is opened on is in the scope of the
\* item and extractEpisodeFromUrl gives e for it; opening the item at its
\* stored lastEpisode starts only updates with that episode, none of which
\* writes, and the stored lastEpisode stays.
C30_ResumeUrlRoundTrips ==
    req.opened =>
        LET url == req.route.url
            episode == ExtractEpisodeFromUrl(url, req.webtoon).val
        IN  /\ url = BuildEpisodeUrl(req.webtoon, req.episode)
            /\ IsValidWebtoonUrl(url, req.webtoon).val
            /\ episode # Null
            /\ EpisodeOf(episode) = req.episode
            /\ \A c \in BagToSet(pcalls) :
                  c.op = "update" => c.ep = req.episode /\ c.pc # "write"
            /\ Stored[req.webtoon.id].lastEpisode = req.episode

====
